---- MODULE Spec2Model ----
(***************************************************************************)
(* Inference job orchestration of the CNN layer visualizer backend:        *)
(* JobService (app/jobs/service.py), the result cache                      *)
(* (app/services/cache.py) and the settings that wire them together.       *)
(*                                                                         *)
(* Conventions.  An Optional[T] value is a sequence of length 0 (None) or  *)
(* 1 (the value).  bytes and str values are sequences of one-character     *)
(* strings once encoded; model ids and layer names are TLA+ strings that   *)
(* utf8 encodes.  uuid4() is modelled as a supply of fresh job ids.        *)
(***************************************************************************)
EXTENDS Integers, Sequences, FiniteSets, TLC

\* ---------------------------------------------------------------- bounds
MaxJobs == 2
MaxStops == 1
MaxCacheItems == 1
MaxModelCache == 2
MaxConstructed == 3
MaxCacheCapacity == 2
MaxLayers == 2
BytesPerMB == 1      \* 1024 * 1024 in routes.py, scaled down
MaxLeakedHooks == 0
MaxElements == 4
MaxValue == 2
NumClasses == 2    \* probs.shape[1]; 1000 for the ImageNet models, scaled down

\* ------------------------------------------------------- input alphabets
ModelIds == {"resnet18", "nomodel"}
ImageInputs == {<<>>, <<"x">>}
TopKInputs == {3}
LayerInputs == {<<>>, << <<"layer4", "layer3">> >>}
Exceptions == {"ValueError", "RuntimeError"}
LoadInputs == {"resnet18", "resnet50", "mobilenet_v2", "custom", "nomodel"}
KeyLayerInputs ==
  {<<>>, << <<"layer3", "layer4">> >>, << <<"layer4", "layer3">> >>,
   << <<"layer4">> >>, << <<"layer4", "layer2", "layer3">> >>,
   << <<"layer2", "layer3", "layer4">> >>}

\* POST /jobs form fields.  cam_layers is a comma-separated string, given
\* here as its pieces between the commas.
ContentTypes == {<<>>, <<"image/png">>, <<"text/plain">>}
PostModelIds == {"resnet18", "mobilenet_v2", "nomodel"}
PostTopKInputs == {<<>>, <<0>>, <<6>>}
PostLayerInputs == {<<>>, << <<" ", "">> >>, << <<"layer4", " layer3">> >>}

InspectPaths == {"layer4", "unused", "training", "nolayer"}
InspectLayerInputs == UNION {[1..n -> InspectPaths] : n \in 0..MaxLayers}
InspectTopK == 1..(NumClasses + 1)
PassInputs == {"ok", "forward", "backward"}

None == <<>>
Some(x) == <<x>>

\* ------------------------------------------------------------- JobStatus
QUEUED == "queued"
RUNNING == "running"
SUCCEEDED == "succeeded"
FAILED == "failed"
JobStatus == {QUEUED, RUNNING, SUCCEEDED, FAILED}

shutdown_signal == "shutdown_signal"

\* --------------------------------------------------------------- registry
\* layers_to_hook of each registered model; a model id outside the domain
\* has no configuration (get_model_config returns None).
layers_to_hook ==
  [m \in {"resnet18", "resnet50", "mobilenet_v2", "custom"} |->
     IF m \in {"resnet18", "resnet50"}
       THEN <<"conv1", "layer1", "layer2", "layer3", "layer4">>
       ELSE <<"features">>]

get_model_config(model_id) ==
  IF model_id \in DOMAIN layers_to_hook
    THEN Some([id |-> model_id, layers_to_hook |-> layers_to_hook[model_id]])
    ELSE None

Last(s, n) == SubSeq(s, Len(s) - n + 1, Len(s))

get_default_cam_layers(model_id) ==
  LET model_config == get_model_config(model_id) IN
  IF model_config = None THEN <<>>
  ELSE LET hooks == model_config[1].layers_to_hook
           num_layers == Len(hooks) IN
       IF num_layers = 0 THEN <<>>
       ELSE IF num_layers <= 2 THEN hooks
       ELSE IF num_layers <= 4 THEN Last(hooks, 2)
       ELSE Last(hooks, 3)

\* ------------------------------------------------------------ encodings
utf8(s) ==
  CASE s = "resnet18" -> <<"r", "e", "s", "n", "e", "t", "1", "8">>
    [] s = "nomodel"  -> <<"n", "o", "m", "o", "d", "e", "l">>
    [] s = "conv1"    -> <<"c", "o", "n", "v", "1">>
    [] s = "layer1"   -> <<"l", "a", "y", "e", "r", "1">>
    [] s = "layer2"   -> <<"l", "a", "y", "e", "r", "2">>
    [] s = "layer3"   -> <<"l", "a", "y", "e", "r", "3">>
    [] s = "layer4"   -> <<"l", "a", "y", "e", "r", "4">>
    [] s = "fast"     -> <<"f", "a", "s", "t">>
    [] s = "full"     -> <<"f", "u", "l", "l">>

Digit(d) == <<"0", "1", "2", "3", "4", "5", "6", "7", "8", "9">>[d + 1]

RECURSIVE str(_)
str(n) == IF n < 10 THEN <<Digit(n)>> ELSE str(n \div 10) \o <<Digit(n % 10)>>

\* Code-point order of the layer names (what sorted() compares by).
LayerRank(s) ==
  CASE s = "conv1" -> 1 [] s = "layer1" -> 2 [] s = "layer2" -> 3
    [] s = "layer3" -> 4 [] s = "layer4" -> 5

RECURSIVE Insert(_, _)
Insert(x, s) ==
  IF s = <<>> THEN <<x>>
  ELSE IF LayerRank(x) < LayerRank(Head(s)) THEN <<x>> \o s
  ELSE <<Head(s)>> \o Insert(x, Tail(s))

RECURSIVE sorted(_)
sorted(s) == IF s = <<>> THEN <<>> ELSE Insert(Head(s), sorted(Tail(s)))

RECURSIVE join(_)
join(s) ==
  IF s = <<>> THEN <<>>
  ELSE IF Len(s) = 1 THEN utf8(s[1])
  ELSE utf8(s[1]) \o <<",">> \o join(Tail(s))

\* ----------------------------------------------------------- CacheService
DefaultKeyLayers == <<"conv1", "layer1", "layer2", "layer3", "layer4">>

\* Mutant: the layer names are joined in the order given.
compute_cache_key_unsorted(image_bytes, model_id, top_k_preds, top_k_cam, cam_layers, cam_layer_mode, feature_map_limit) ==
  LET layers == IF cam_layers = <<>> THEN DefaultKeyLayers ELSE cam_layers[1] IN
  image_bytes \o utf8(model_id) \o str(top_k_preds) \o str(top_k_cam)
    \o join(layers) \o utf8(cam_layer_mode) \o str(feature_map_limit)

\* sha256 is taken to be injective: the key is the byte string it hashes.
compute_cache_key(image_bytes, model_id, top_k_preds, top_k_cam, cam_layers, cam_layer_mode, feature_map_limit) ==
  LET layers == IF cam_layers = None THEN DefaultKeyLayers ELSE cam_layers[1]
      layers_str == join(sorted(layers)) IN
  image_bytes \o utf8(model_id) \o str(top_k_preds) \o str(top_k_cam)
    \o layers_str \o utf8(cam_layer_mode) \o str(feature_map_limit)

\* The parameter names compute_cache_key declares.
KeyParameters ==
  {"top_k_preds", "top_k_cam", "cam_layers", "cam_layer_mode", "feature_map_limit"}

Keys(c) == {c[i].key : i \in 1..Len(c)}

IndexOf(c, k) == CHOOSE i \in 1..Len(c) : c[i].key = k

Without(c, i) == SubSeq(c, 1, i - 1) \o SubSeq(c, i + 1, Len(c))

move_to_end(c, k) ==
  LET i == IndexOf(c, k) IN Append(Without(c, i), c[i])

\* The log of uses after `k` was inserted or hit: k is the most recent.
Used(uses, k) == Append(SelectSeq(uses, LAMBDA x : x # k), k)

\* The key of `keys` whose latest use is the oldest.
LeastRecent(uses, keys) ==
  uses[CHOOSE i \in 1..Len(uses) :
         /\ uses[i] \in keys
         /\ \A j \in 1..(i - 1) : uses[j] \notin keys]

\* Mutant: a hit returns the value without moving the entry to the end.
cache_get_no_touch(c, k) ==
  IF k \in Keys(c)
    THEN [value |-> <<c[IndexOf(c, k)].value>>, cache |-> c]
    ELSE [value |-> <<>>, cache |-> c]

\* CacheService.get: [value, cache]
cache_get(c, k) ==
  IF k \in Keys(c)
    THEN [value |-> Some(c[IndexOf(c, k)].value), cache |-> move_to_end(c, k)]
    ELSE [value |-> None, cache |-> c]

\* Mutant: set stores a second entry for a key that is already present.
cache_set_append(c, max_items, k, v) ==
  LET added == Append(c, [key |-> k, value |-> v]) IN
  [raised |-> <<>>, cache |-> IF Len(added) > max_items THEN Tail(added) ELSE added]

\* CacheService.set: [raised, cache].  The final move_to_end raises KeyError
\* when the key it was given is no longer in the dictionary.
cache_set(c, max_items, k, v) ==
  LET c1 == IF k \in Keys(c) THEN move_to_end(c, k)
            ELSE LET added == Append(c, [key |-> k, value |-> v]) IN
                 IF Len(added) > max_items THEN Tail(added) ELSE added IN
  IF k \in Keys(c1)
    THEN [raised |-> None, cache |-> move_to_end(c1, k)]
    ELSE [raised |-> Some("KeyError"), cache |-> c1]

\* Default values of compute_cache_key's keyword parameters.
KeyDefaults ==
  [top_k_preds |-> 5, top_k_cam |-> 1, cam_layers |-> None,
   cam_layer_mode |-> "fast", feature_map_limit |-> 16]

\* A call compute_cache_key(image_bytes, model_id, **kw): a keyword that is
\* not a declared parameter raises TypeError; parameters not passed take
\* their defaults.
call_compute_cache_key(image_bytes, model_id, kw) ==
  LET Arg(n) == IF n \in DOMAIN kw THEN kw[n] ELSE KeyDefaults[n] IN
  IF DOMAIN kw \subseteq KeyParameters
    THEN [raised |-> None,
          key |-> Some(compute_cache_key(image_bytes, model_id,
                         Arg("top_k_preds"), Arg("top_k_cam"), Arg("cam_layers"),
                         Arg("cam_layer_mode"), Arg("feature_map_limit")))]
    ELSE [raised |-> Some("TypeError"), key |-> None]

\* --------------------------------------------------------------- state
VARIABLES
  CACHE_ENABLED,    \* settings.CACHE_ENABLED
  CACHE_MAX_ITEMS,  \* settings.CACHE_MAX_ITEMS
  cache,            \* cache_service._cache, least recently used first
  jobs,             \* JobService._jobs
  job_data,         \* JobService._job_data
  job_params,       \* JobService._job_params
  job_queue,        \* JobService._job_queue
  worker_task,      \* JobService._worker_task: "None", "pending" or "done"
  worker_running,   \* JobService._worker_running
  frame,            \* the worker coroutine: position and locals
  stopper,          \* the stop_worker coroutine: "idle" or "wait_for"
  last,             \* the latest create_job call: arguments and outcome
  MODEL_CACHE_MAX,  \* settings.MODEL_CACHE_MAX
  model_cache,      \* loaders._model_cache, least recently used first
  constructed,      \* the number of model handles constructed so far
  loaded,           \* the latest call of a model loader: argument and outcome
  model_uses,       \* model ids in the order of their latest use, oldest first
  cache_call,       \* the latest result-cache lookup / store: arguments and outcome
  cache_uses,       \* cache keys in the order of their latest use, oldest first
  hooks,            \* the hooks registered on the cached model objects
  inspect_call,     \* the latest call of a capture / Grad-CAM function
  posted,           \* the latest POST /jobs request and its response
  feature_maps,     \* a save_feature_maps call: its arguments, the manifest and the files
  cam_overlay,      \* one Grad-CAM overlay: activations, gradients, image and the result
  key_pair,         \* two compute_cache_key calls: their arguments and keys
  accesses          \* the kinds of mutation of the job maps and of queue operation on a job id made so far

vars == <<CACHE_ENABLED, CACHE_MAX_ITEMS, cache, jobs, job_data, job_params,
          job_queue, worker_task, worker_running, frame, stopper, last,
          MODEL_CACHE_MAX, model_cache, constructed, loaded, model_uses,
          cache_call, cache_uses, hooks, inspect_call, posted, feature_maps,
          cam_overlay, key_pair, accesses>>

config == <<CACHE_ENABLED, CACHE_MAX_ITEMS>>
service == <<jobs, job_data, job_params, job_queue>>
worker == <<worker_task, worker_running, frame>>
loader == <<MODEL_CACHE_MAX, model_cache, constructed, loaded, model_uses>>
cache_calls == <<cache_call, cache_uses>>
inspect == <<hooks, inspect_call>>

\* cache_service = CacheService(max_items=CACHE_MAX_ITEMS if CACHE_ENABLED else 0)
max_items == IF CACHE_ENABLED THEN CACHE_MAX_ITEMS ELSE 0

EmptyDict == [k \in {} |-> None]

NoFrame ==
  [pc |-> "none", must_cancel |-> FALSE, job_id |-> None, model_id |-> None,
   image_bytes |-> None, job_params |-> None, stage |-> 0, exc |-> None,
   result |-> None]

NoCall ==
  [model_id |-> None, image_bytes |-> None, top_k |-> None, cam_layers |-> None,
   raised |-> None, ret |-> None, key |-> None, hit |-> FALSE]

NoLoad ==
  [op |-> "none", model_id |-> None, raised |-> None, ret |-> None,
   before |-> <<>>, count |-> 0]

NoCacheCall ==
  [op |-> "none", image_bytes |-> <<>>, model_id |-> "", cam_layers |-> None,
   key |-> None, value |-> None, raised |-> None, before |-> <<>>]

NoInspectCall ==
  [op |-> "none", model_id |-> "", layers |-> <<>>, top_k |-> 0, passes |-> "ok",
   raised |-> None, activations |-> None, cams |-> None, gradcam |-> None,
   forwards |-> 0, backwards |-> <<>>, before |-> {}]

NoRequest ==
  [content_type |-> None, model_id |-> "", image |-> <<>>, top_k |-> None,
   cam_layers |-> None, status |-> 0, detail |-> "", job_id |-> None]

\* Settings defaults (config.py).
DefaultModelCacheMax == 3
DefaultCacheMaxItems == 100
DefaultMaxUploadSizeMB == 10

\* No save_feature_maps call has been made.
NoFeatureMaps ==
  [activation_tensor |-> <<>>, top_k |-> 0, saved |-> FALSE, manifest |-> <<>>,
   files |-> {}]

\* compute_cache_key has not been called on a pair of argument tuples.
NoKeyPair == [args |-> <<>>, keys |-> <<>>]

\* No overlay has been computed.
NoOverlay ==
  [activations |-> <<>>, gradients |-> <<>>, width |-> 0, colour |-> <<>>,
   alpha |-> 0, done |-> FALSE, cam |-> <<>>, resized |-> <<>>, heatmap |-> <<>>,
   overlay |-> <<>>]

\* JobService.__init__, the empty result cache and the empty model cache.
InitState ==
  /\ cache = <<>>
  /\ jobs = EmptyDict
  /\ job_data = EmptyDict
  /\ job_params = EmptyDict
  /\ job_queue = <<>>
  /\ worker_task = "None"
  /\ worker_running = FALSE
  /\ frame = NoFrame
  /\ stopper = "idle"
  /\ last = NoCall
  /\ model_cache = <<>>
  /\ constructed = 0
  /\ loaded = NoLoad
  /\ model_uses = <<>>
  /\ cache_call = NoCacheCall
  /\ cache_uses = <<>>
  /\ hooks = {}
  /\ accesses = {}
  /\ inspect_call = NoInspectCall
  /\ posted = NoRequest

Init ==
  /\ CACHE_ENABLED \in BOOLEAN
  /\ CACHE_MAX_ITEMS \in 0..MaxCacheItems
  /\ MODEL_CACHE_MAX = DefaultModelCacheMax
  /\ InitState
  /\ feature_maps = NoFeatureMaps
  /\ cam_overlay = NoOverlay
  /\ key_pair = NoKeyPair

\* ------------------------------------------------------------ helpers
JobRecord(model_id, status, progress, message, result) ==
  [model_id |-> model_id, status |-> status, progress |-> progress,
   message |-> message, result |-> result]

\* dict[key] = value
Put(d, k, v) == [x \in DOMAIN d \cup {k} |-> IF x = k THEN v ELSE d[x]]

\* dict.pop(key, None)
Pop(d, k) == [x \in DOMAIN d \ {k} |-> d[x]]

\* dict.get(key)
Get(d, k) == IF k \in DOMAIN d THEN Some(d[k]) ELSE None

\* str(uuid.uuid4()): an id no job has yet; ids are numbered as issued.
JobId(i) == "job-" \o ToString(i)

AllJobIds == {JobId(i) : i \in 1..MaxJobs}

uuid4 == JobId(Cardinality(DOMAIN jobs) + 1)

\* A mutation of one of the job maps inside `async with self._lock`.
LockedAccess(object, op) == [object |-> object, op |-> op, locked |-> TRUE]

\* A call of self._job_queue.put / get that passes a job id; none of them is
\* inside `async with self._lock` (service.py:101, 428).
QueueAccess(op) == [object |-> "_job_queue", op |-> op, locked |-> FALSE]

\* service.py:71-80: create_job on a cache hit.
CreateJobHitAccesses == {LockedAccess("_jobs", "set")}

\* service.py:88-101: create_job on a cache miss.
CreateJobAccesses ==
  {LockedAccess("_jobs", "set"), LockedAccess("_job_data", "set"),
   LockedAccess("_job_params", "set"), QueueAccess("put")}

\* service.py:127-134, 390-396 and 408-413: the fields of a job record.
UpdateJobAccesses == {LockedAccess("_jobs", "update")}

\* service.py:417-419.
FinallyAccesses == {LockedAccess("_job_data", "pop"), LockedAccess("_job_params", "pop")}

\* service.py:428: the item taken from the queue is a job id or the sentinel.
GetAccesses(item) == IF item = shutdown_signal THEN {} ELSE {QueueAccess("get")}

\* _update_job_progress(job_id, progress, message, status)
update_job_progress(js, job_id, progress, message, status) ==
  IF job_id \in DOMAIN js
    THEN [js EXCEPT ![job_id].progress = progress,
                    ![job_id].message = IF message # None THEN message[1] ELSE @,
                    ![job_id].status = IF status # None THEN status[1] ELSE @]
    ELSE js

\* The keywords create_job passes to compute_cache_key (service.py line 65).
CreateJobKeyFixed(image_bytes, model_id, top_k, cam_layers) ==
  call_compute_cache_key(image_bytes, model_id,
                         [top_k_cam |-> top_k, cam_layers |-> Some(cam_layers)])

CreateJobKey(image_bytes, model_id, top_k, cam_layers) ==
  call_compute_cache_key(image_bytes, model_id,
                         [top_k |-> top_k, cam_layers |-> Some(cam_layers)])

\* The call process_job makes to compute_cache_key (service.py line 400).
ProcessJobKey(image_bytes, model_id) ==
  call_compute_cache_key(image_bytes, model_id, [n \in {} |-> None])

\* ------------------------------------------------------------ create_job
Returned(call, job_id, key, hit) ==
  [call EXCEPT !.ret = Some(job_id), !.key = key, !.hit = hit]

Raised(call, e) == [call EXCEPT !.raised = Some(e)]

create_job(model_id, image_bytes, top_k, cam_layers_arg) ==
  LET call == [NoCall EXCEPT !.model_id = Some(model_id),
                             !.image_bytes = Some(image_bytes),
                             !.top_k = Some(top_k),
                             !.cam_layers = cam_layers_arg]
      cam_layers == IF cam_layers_arg = None
                      THEN get_default_cam_layers(model_id)
                      ELSE cam_layers_arg[1]
      lookup == CreateJobKey(image_bytes, model_id, top_k, cam_layers)
      got == cache_get(cache, lookup.key[1])
      job_id == uuid4
  IN
  IF cam_layers_arg = None /\ cam_layers = <<>> THEN
    /\ last' = Raised(call, "ValueError")
    /\ UNCHANGED <<cache, cache_uses, service, accesses>>
  ELSE IF CACHE_ENABLED /\ lookup.raised # None THEN
    /\ last' = Raised(call, lookup.raised[1])
    /\ UNCHANGED <<cache, cache_uses, service, accesses>>
  ELSE IF CACHE_ENABLED /\ got.value # None THEN
    /\ cache' = got.cache
    /\ cache_uses' = Used(cache_uses, lookup.key[1])
    /\ jobs' = Put(jobs, job_id,
                   JobRecord(model_id, SUCCEEDED, 100, <<"Job completed (cached)">>,
                             got.value))
    /\ last' = Returned(call, job_id, lookup.key, TRUE)
    /\ accesses' = accesses \cup CreateJobHitAccesses
    /\ UNCHANGED <<job_data, job_params, job_queue>>
  ELSE
    /\ cache' = IF CACHE_ENABLED THEN got.cache ELSE cache
    /\ UNCHANGED cache_uses
    /\ jobs' = Put(jobs, job_id,
                   JobRecord(model_id, QUEUED, 0, <<"Job queued">>, None))
    /\ job_data' = Put(job_data, job_id, image_bytes)
    /\ job_params' = Put(job_params, job_id, [top_k |-> top_k, cam_layers |-> cam_layers])
    /\ job_queue' = Append(job_queue, job_id)
    /\ accesses' = accesses \cup CreateJobAccesses
    /\ last' = Returned(call, job_id, IF CACHE_ENABLED THEN lookup.key ELSE None, FALSE)

CreateJob ==
  /\ Cardinality(DOMAIN jobs) < MaxJobs
  /\ \E model_id \in ModelIds, image_bytes \in ImageInputs,
        top_k \in TopKInputs, cam_layers \in LayerInputs :
       create_job(model_id, image_bytes, top_k, cam_layers)
  /\ UNCHANGED <<config, key_pair, cam_overlay, feature_maps, posted, inspect, loader, cache_call, worker, stopper>>

\* ------------------------------------------------------- POST /jobs
\* str.strip of a piece of the cam_layers field.
strip(piece) ==
  CASE piece = " " -> ""
    [] piece = " layer3" -> "layer3"
    [] OTHER -> piece

\* [layer.strip() for layer in cam_layers.split(",") if layer.strip()]
parse_cam_layers(pieces) ==
  LET kept == SelectSeq(pieces, LAMBDA piece : strip(piece) # "") IN
  [i \in 1..Len(kept) |-> strip(kept[i])]

\* content_type.startswith("image/"), on the content types used.
startswith(content_type, prefix) ==
  prefix = "image/" /\ content_type \in {"image/png"}

\* The uploads: empty, within the size limit, and one byte over it.
max_size_bytes == DefaultMaxUploadSizeMB * BytesPerMB
UploadInputs == {<<>>, <<"x">>, [i \in 1..(max_size_bytes + 1) |-> "x"]}

\* The layer list the route passes when the form has no cam_layers.
RouteDefaultLayers == <<"conv1", "layer1", "layer2", "layer3", "layer4">>

\* Lines 49-88 of routes.create_job: the HTTPException raised, as
\* [status, detail], or status 0 when the request passes validation.
validate(content_type, model_id, image_bytes, top_k, cam_layers) ==
  IF content_type = None \/ ~startswith(content_type[1], "image/")
    THEN [status |-> 400, detail |-> "File must be an image"]
  ELSE IF get_model_config(model_id) = None
    THEN [status |-> 404, detail |-> "Model not found in registry"]
  ELSE IF Len(image_bytes) = 0
    THEN [status |-> 400, detail |-> "Image file is empty"]
  ELSE IF Len(image_bytes) > max_size_bytes
    THEN [status |-> 400, detail |-> "Image file too large"]
  ELSE IF top_k # None /\ (top_k[1] < 1 \/ top_k[1] > 5)
    THEN [status |-> 400, detail |-> "top_k must be between 1 and 5"]
  ELSE IF cam_layers # None /\ parse_cam_layers(cam_layers[1]) = <<>>
    THEN [status |-> 400, detail |-> "cam_layers must contain at least one layer"]
  ELSE [status |-> 0, detail |-> ""]

\* Mutant: the route creates the job first and validates afterwards.
PostJobLate ==
  /\ Cardinality(DOMAIN jobs) < MaxJobs
  /\ \E content_type \in ContentTypes, model_id \in PostModelIds,
        image_bytes \in UploadInputs, top_k \in PostTopKInputs,
        cam_layers \in PostLayerInputs :
       \E checked \in {validate(content_type, model_id, image_bytes, top_k, cam_layers)} :
       /\ create_job(model_id, image_bytes, 3, Some(RouteDefaultLayers))
       /\ posted' = [content_type |-> content_type, model_id |-> model_id,
                     image |-> image_bytes, top_k |-> top_k, cam_layers |-> cam_layers,
                     status |-> IF checked.status # 0 THEN checked.status ELSE 200,
                     detail |-> checked.detail, job_id |-> last'.ret]
  /\ UNCHANGED <<config, key_pair, cam_overlay, feature_maps, inspect, loader, cache_call, worker, stopper>>

\* routes.create_job: validation, then job_service.create_job and get_job.
\* An exception of create_job is not handled: the response is a 500.
PostJob ==
  /\ Cardinality(DOMAIN jobs) < MaxJobs
  /\ \E content_type \in ContentTypes, model_id \in PostModelIds,
        image_bytes \in UploadInputs, top_k \in PostTopKInputs,
        cam_layers \in PostLayerInputs :
       \E checked \in {validate(content_type, model_id, image_bytes, top_k, cam_layers)} :
       IF checked.status # 0 THEN
         /\ posted' = [content_type |-> content_type, model_id |-> model_id,
                       image |-> image_bytes, top_k |-> top_k, cam_layers |-> cam_layers,
                       status |-> checked.status, detail |-> checked.detail,
                       job_id |-> None]
         /\ UNCHANGED <<cache, cache_uses, service, last, accesses>>
       ELSE
         /\ create_job(model_id, image_bytes,
                       IF top_k = None THEN 3 ELSE top_k[1],
                       Some(IF cam_layers = None THEN RouteDefaultLayers
                            ELSE parse_cam_layers(cam_layers[1])))
         /\ posted' = [content_type |-> content_type, model_id |-> model_id,
                       image |-> image_bytes, top_k |-> top_k, cam_layers |-> cam_layers,
                       status |-> IF last'.raised # None THEN 500 ELSE 200,
                       detail |-> IF last'.raised # None THEN "Internal Server Error" ELSE "",
                       job_id |-> last'.ret]
  /\ UNCHANGED <<config, key_pair, cam_overlay, feature_maps, inspect, loader, cache_call, worker, stopper>>

\* --------------------------------------------------------------- get_job
\* A read under the lock: the record, or None.  It changes nothing.
get_job(job_id) == Get(jobs, job_id)

GetJob ==
  /\ \E job_id \in AllJobIds :
       IF get_job(job_id) = None THEN TRUE
       ELSE get_job(job_id)[1].status \in JobStatus
  /\ UNCHANGED vars

\* ---------------------------------------------------------- process_job
\* Progress checkpoints of the pipeline, in order, with their messages.
Checkpoints ==
  << [progress |-> 0,  message |-> "Starting processing"],
     [progress |-> 10, message |-> "Loading model"],
     [progress |-> 20, message |-> "Preprocessing image"],
     [progress |-> 40, message |-> "Running forward pass"],
     [progress |-> 60, message |-> "Extracting feature maps"],
     [progress |-> 80, message |-> "Generating GradCAM visualizations"] >>

\* The models load_model can construct (_get_model_mapping).
SupportedModels == {"resnet18", "resnet50", "mobilenet_v2"}

\* -------------------------------------------------------- model loaders
\* The model cache is a sequence of [key, value] entries, least recently
\* used first; a handle is the ordinal of the construction that made it.
\* `built` says whether the torchvision constructor returns.
\* Mutant: a hit returns the model without moving it to the end.
load_model_no_touch(mc, cache_max, n, model_id, built) ==
  IF model_id \in Keys(mc) THEN
    [raised |-> None, ret |-> Some(mc[IndexOf(mc, model_id)].value),
     cache |-> mc, constructed |-> n]
  ELSE IF get_model_config(model_id) = None \/ model_id \notin SupportedModels THEN
    [raised |-> Some("ValueError"), ret |-> None, cache |-> mc, constructed |-> n]
  ELSE IF ~built THEN
    [raised |-> Some("RuntimeError"), ret |-> None, cache |-> mc, constructed |-> n]
  ELSE
    LET added == Append(mc, [key |-> model_id, value |-> n + 1]) IN
    [raised |-> None, ret |-> Some(n + 1),
     cache |-> IF Len(added) > cache_max THEN Tail(added) ELSE added,
     constructed |-> n + 1]

\* Mutant: the cache is not consulted; every call constructs a model.
load_model_rebuild(mc, cache_max, n, model_id, built) ==
  IF get_model_config(model_id) = None \/ model_id \notin SupportedModels THEN
    [raised |-> Some("ValueError"), ret |-> None, cache |-> mc, constructed |-> n]
  ELSE IF ~built THEN
    [raised |-> Some("RuntimeError"), ret |-> None, cache |-> mc, constructed |-> n]
  ELSE
    LET rest == IF model_id \in Keys(mc) THEN Without(mc, IndexOf(mc, model_id)) ELSE mc
        added == Append(rest, [key |-> model_id, value |-> n + 1]) IN
    [raised |-> None, ret |-> Some(n + 1),
     cache |-> IF Len(added) > cache_max THEN Tail(added) ELSE added,
     constructed |-> n + 1]

\* Mutant: the entry is reserved before the model is constructed and stays
\* when the construction fails.
load_model_reserve(mc, cache_max, n, model_id, built) ==
  IF model_id \in Keys(mc) THEN
    [raised |-> None, ret |-> Some(mc[IndexOf(mc, model_id)].value),
     cache |-> move_to_end(mc, model_id), constructed |-> n]
  ELSE IF get_model_config(model_id) = None \/ model_id \notin SupportedModels THEN
    [raised |-> Some("ValueError"), ret |-> None, cache |-> mc, constructed |-> n]
  ELSE
    LET added == Append(mc, [key |-> model_id, value |-> n + 1])
        kept == IF Len(added) > cache_max THEN Tail(added) ELSE added IN
    IF built
      THEN [raised |-> None, ret |-> Some(n + 1), cache |-> kept, constructed |-> n + 1]
      ELSE [raised |-> Some("RuntimeError"), ret |-> None, cache |-> kept,
            constructed |-> n + 1]

\* load_model: [raised, ret, cache, constructed]
load_model(mc, cache_max, n, model_id, built) ==
  IF model_id \in Keys(mc) THEN
    [raised |-> None, ret |-> Some(mc[IndexOf(mc, model_id)].value),
     cache |-> move_to_end(mc, model_id), constructed |-> n]
  ELSE IF get_model_config(model_id) = None \/ model_id \notin SupportedModels THEN
    [raised |-> Some("ValueError"), ret |-> None, cache |-> mc, constructed |-> n]
  ELSE IF ~built THEN
    [raised |-> Some("RuntimeError"), ret |-> None, cache |-> mc, constructed |-> n]
  ELSE
    LET added == move_to_end(Append(mc, [key |-> model_id, value |-> n + 1]), model_id) IN
    [raised |-> None, ret |-> Some(n + 1),
     cache |-> IF Len(added) > cache_max THEN Tail(added) ELSE added,
     constructed |-> n + 1]

\* Mutant: the preloaded model is kept whether or not there is room.
preload_model_keep(mc, cache_max, n, model_id, built) ==
  IF \/ get_model_config(model_id) = None
     \/ model_id \notin SupportedModels
     \/ model_id \in Keys(mc)
     \/ ~built
    THEN [cache |-> mc, constructed |-> n]
  ELSE [cache |-> Append(mc, [key |-> model_id, value |-> n + 1]),
        constructed |-> n + 1]

\* preload_model: [cache, constructed]
preload_model(mc, cache_max, n, model_id, built) ==
  IF \/ get_model_config(model_id) = None
     \/ model_id \notin SupportedModels
     \/ model_id \in Keys(mc)
     \/ ~built
    THEN [cache |-> mc, constructed |-> n]
  ELSE IF Len(mc) < cache_max
    THEN [cache |-> move_to_end(Append(mc, [key |-> model_id, value |-> n + 1]), model_id),
          constructed |-> n + 1]
  ELSE [cache |-> mc, constructed |-> n + 1]

remove_from_cache(mc, model_id) ==
  IF model_id \in Keys(mc) THEN Without(mc, IndexOf(mc, model_id)) ELSE mc

\* ------------------------------------------------- hooks and Grad-CAM
\* What a dotted path leads to on a constructed model, as get_layer_by_path
\* walks it with hasattr / getattr / indexing:
\*   "module"    a submodule the forward pass calls and gradients reach;
\*   "unused"    a submodule the forward pass never calls;
\*   "attribute" an attribute that is not a module (nn.Module.training);
\*   "missing"   nothing: neither an attribute nor an index.
PathKind(model_id, path) ==
  IF path = "training" THEN "attribute"
  ELSE IF model_id \in {"resnet18", "resnet50"}
    THEN CASE path \in {"conv1", "layer1", "layer2", "layer3", "layer4"} -> "module"
           [] path = "unused" -> "unused"
           [] OTHER -> "missing"
  ELSE IF model_id = "mobilenet_v2" /\ path = "features" THEN "module"
  ELSE "missing"

\* get_layer_by_path: [raised, ret], ret the kind of object found.
get_layer_by_path(model_id, layer_path) ==
  IF PathKind(model_id, layer_path) = "missing"
    THEN [raised |-> Some("ValueError"), ret |-> None]
    ELSE [raised |-> None, ret |-> Some(PathKind(model_id, layer_path))]

\* Only nn.Module objects have register_forward_hook.
IsModule(kind) == kind \in {"module", "unused"}

\* The forward pass calls the module, so its forward hook fires.
Runs(kind) == kind = "module"

\* A backward pass from a class score reaches the module's output.
GetsGradient(kind) == kind = "module"

\* A hook on a model object; the handle tells hooks of one layer apart.
Hook(handle, model_id, layer, kind) ==
  [handle |-> handle, model |-> model_id, layer |-> layer, kind |-> kind]

\* The i-th handle made from now on: handles count up from the largest one
\* among the hooks `hs` on the models.
NewHandle(hs, i) ==
  (IF hs = {} THEN 0
   ELSE CHOOSE n \in {h.handle : h \in hs} : \A h \in hs : h.handle <= n) + i

Range(s) == {s[i] : i \in 1..Len(s)}

\* The one element of a singleton: Only({e(x) : x \in {v}}) is e(v), with v
\* computed once.
Only(S) == CHOOSE x \in S : TRUE

min(a, b) == IF a <= b THEN a ELSE b

\* The layers before the first one in `found` that is not a module, or all.
Hookable(model_id, found) ==
  LET stops == {i \in 1..Len(found) : ~IsModule(PathKind(model_id, found[i]))} IN
  IF stops = {} THEN found
  ELSE SubSeq(found, 1, (CHOOSE i \in stops : \A j \in stops : i <= j) - 1)

\* Mutant: a path that is not found aborts the registration.
register_forward_hooks_strict(hs, model_id, layer_paths) ==
  Only({[raised |-> IF Len(done) = Len(layer_paths) THEN None
                    ELSE IF get_layer_by_path(model_id, layer_paths[Len(done) + 1]).raised # None
                      THEN Some("ValueError") ELSE Some("AttributeError"),
         hooks |-> hs \cup {Hook(NewHandle(hs, i), model_id, done[i], "forward") :
                            i \in 1..Len(done)},
         handles |-> [i \in 1..Len(done) |-> NewHandle(hs, i)]] :
        done \in {Hookable(model_id,
                    LET bad == {i \in 1..Len(layer_paths) :
                                  get_layer_by_path(model_id, layer_paths[i]).raised # None}
                    IN IF bad = {} THEN layer_paths
                       ELSE SubSeq(layer_paths, 1,
                                   (CHOOSE i \in bad : \A j \in bad : i <= j) - 1))}})

\* register_forward_hooks on a model carrying the hooks `hs`:
\* [raised, hooks, handles].  ValueError from get_layer_by_path is caught and
\* the path skipped; AttributeError from register_forward_hook on something
\* that is not a module is not caught, and the loop ends there.
register_forward_hooks(hs, model_id, layer_paths) ==
  Only({[raised |-> IF Len(done) = Len(found) THEN None ELSE Some("AttributeError"),
         hooks |-> hs \cup {Hook(NewHandle(hs, i), model_id, done[i], "forward") :
                            i \in 1..Len(done)},
         handles |-> [i \in 1..Len(done) |-> NewHandle(hs, i)]] :
        found \in {SelectSeq(layer_paths,
                     LAMBDA p : get_layer_by_path(model_id, p).raised = None)},
        done \in {Hookable(model_id,
                    SelectSeq(layer_paths,
                      LAMBDA p : get_layer_by_path(model_id, p).raised = None))}})

\* remove_hooks: every handle of the list is removed.
remove_hooks(hs, handles) == {h \in hs : h.handle \notin Range(handles)}

\* The layers whose hook of the given kind, among `handles`, fired.
Captured(hs, handles, model_id, kind, Fires(_)) ==
  {h.layer : h \in {g \in hs : /\ g.handle \in handles
                               /\ g.kind = kind
                               /\ Fires(PathKind(model_id, g.layer))}}

\* capture_activations: [raised, ret, hooks], ret the keys of the returned
\* dictionary.  `passes` says what the passes over the model do: "ok",
\* "forward" (the forward pass raises) or "backward" (a backward pass raises).
capture_activations(hs, model_id, layer_paths, passes) ==
  Only({IF reg.raised # None
          THEN [raised |-> reg.raised, ret |-> None, hooks |-> reg.hooks]
        ELSE IF passes = "forward"
          THEN [raised |-> Some("RuntimeError"), ret |-> None,
                hooks |-> remove_hooks(reg.hooks, reg.handles)]
        ELSE [raised |-> None,
              ret |-> Some(Captured(reg.hooks, Range(reg.handles), model_id,
                                    "forward", Runs)),
              hooks |-> remove_hooks(reg.hooks, reg.handles)] :
        reg \in {register_forward_hooks(hs, model_id, layer_paths)}})

\* _compute_cam_for_class: [raised, hooks].
compute_cam_for_class(hs, model_id, target_layer, passes) ==
  LET target_module == get_layer_by_path(model_id, target_layer)
      forward_handle == NewHandle(hs, 1)
      backward_handle == NewHandle(hs, 2)
      hooked == hs \cup {Hook(forward_handle, model_id, target_layer, "forward"),
                         Hook(backward_handle, model_id, target_layer, "backward")}
  IN
  IF target_module.raised # None
    THEN [raised |-> target_module.raised, hooks |-> hs]
  ELSE IF ~IsModule(target_module.ret[1])
    THEN [raised |-> Some("AttributeError"), hooks |-> hs]
  ELSE IF passes # "ok"
    THEN [raised |-> Some("RuntimeError"),
          hooks |-> remove_hooks(hooked, <<forward_handle, backward_handle>>)]
  ELSE IF ~GetsGradient(target_module.ret[1])
    THEN [raised |-> Some("ValueError"),
          hooks |-> remove_hooks(hooked, <<forward_handle, backward_handle>>)]
  ELSE [raised |-> None,
        hooks |-> remove_hooks(hooked, <<forward_handle, backward_handle>>)]

\* The loop of generate_gradcam_topk over classes `class_id`..`top_k`:
\* a class whose computation raises is skipped.
RECURSIVE gradcam_topk_classes(_, _, _, _, _, _, _)
gradcam_topk_classes(hs, results, model_id, target_layer, class_id, top_k, passes) ==
  IF class_id > min(top_k, NumClasses)
    THEN [raised |-> None, ret |-> Some(results), hooks |-> hs]
  ELSE Only({gradcam_topk_classes(
               cam.hooks,
               IF cam.raised = None THEN Append(results, class_id) ELSE results,
               model_id, target_layer, class_id + 1, top_k, passes) :
             cam \in {compute_cam_for_class(hs, model_id, target_layer, passes)}})

\* generate_gradcam_topk: [raised, ret, hooks], ret the classes with an
\* overlay.  Its first forward pass is made before any hook is registered.
generate_gradcam_topk(hs, model_id, target_layer, top_k, passes) ==
  IF passes = "forward"
    THEN [raised |-> Some("RuntimeError"), ret |-> None, hooks |-> hs]
    ELSE gradcam_topk_classes(hs, <<>>, model_id, target_layer, 1, top_k, passes)

\* layer_modules of generate_gradcam_multilayer: the names of cam_layers
\* that get_layer_by_path finds, each once, in the order first given.
layer_modules(model_id, cam_layers) ==
  LET firsts == {i \in 1..Len(cam_layers) :
                   /\ get_layer_by_path(model_id, cam_layers[i]).raised = None
                   /\ \A j \in 1..(i - 1) : cam_layers[j] # cam_layers[i]}
      Nth(n) == CHOOSE i \in firsts : Cardinality({j \in firsts : j < i}) = n - 1
  IN [n \in 1..Cardinality(firsts) |-> cam_layers[Nth(n)]]

\* Lines 582-585: a forward and a backward hook on every found layer, until
\* one of them is not a module.
register_gradcam_hooks(hs, model_id, names) ==
  Only({[raised |-> IF Len(done) = Len(names) THEN None ELSE Some("AttributeError"),
         hooks |-> hs \cup {Hook(NewHandle(hs, 2 * i - 1), model_id, done[i], "forward") :
                            i \in 1..Len(done)}
                      \cup {Hook(NewHandle(hs, 2 * i), model_id, done[i], "backward") :
                            i \in 1..Len(done)},
         handles |-> [i \in 1..(2 * Len(done)) |-> NewHandle(hs, i)]] :
        done \in {Hookable(model_id, names)}})

RECURSIVE Concat(_)
Concat(ss) == IF ss = <<>> THEN <<>> ELSE Head(ss) \o Concat(Tail(ss))

\* The value generate_gradcam_multilayer returns when `good` are the layers
\* of cam_layers with an overlay: every class has the overlays of `good`,
\* and a warning for every other layer.
GradcamData(cam_layers, top_k, good) ==
  Only({[top_k |-> top_k,
         classes |-> [c \in 1..min(top_k, NumClasses) |->
                        [class_id |-> c, overlays |-> overlays]],
         layers |-> cam_layers,
         warnings |-> IF failed = <<>> THEN None
                      ELSE Some(Concat([c \in 1..min(top_k, NumClasses) |->
                                  [i \in 1..Len(failed) |->
                                     [class_id |-> c, layer |-> failed[i]]]]))] :
        overlays \in {SelectSeq(cam_layers, LAMBDA l : l \in good)},
        failed \in {SelectSeq(cam_layers, LAMBDA l : l \notin good)}})

\* One backward pass for every layer of every class, each retaining the graph.
backward_per_layer(classes, cam_layers) ==
  [n \in 1..(classes * Len(cam_layers)) |-> TRUE]

\* The backward passes of the class loop (gradcam.py:606-616), in order: the
\* retain_graph argument of each.  The loop over cam_layers that follows each
\* pass (gradcam.py:623) makes none.
backward_passes(classes, cam_layers) == [class_idx \in 1..classes |-> class_idx < classes]

\* generate_gradcam_multilayer: [raised, ret, hooks, forwards, backwards],
\* forwards the number of calls of model(input_tensor) and backwards the
\* retain_graph arguments of the calls of backward(), both counting a call
\* that raises.
generate_gradcam_multilayer(hs, model_id, cam_layers, top_k, passes) ==
  Only({IF names = <<>>
          THEN [raised |-> Some("ValueError"), ret |-> None, hooks |-> hs,
                forwards |-> 0, backwards |-> <<>>]
        ELSE Only({
          IF reg.raised # None
            THEN [raised |-> reg.raised, ret |-> None, hooks |-> reg.hooks,
                  forwards |-> 0, backwards |-> <<>>]
          ELSE IF passes = "forward"
            THEN [raised |-> Some("RuntimeError"), ret |-> None,
                  hooks |-> remove_hooks(reg.hooks, reg.handles),
                  forwards |-> 1, backwards |-> <<>>]
          ELSE IF passes = "backward"
            THEN [raised |-> Some("RuntimeError"), ret |-> None,
                  hooks |-> remove_hooks(reg.hooks, reg.handles),
                  forwards |-> 1,
                  backwards |-> SubSeq(backward_passes(min(top_k, NumClasses), cam_layers),
                                       1, 1)]
          ELSE [raised |-> None,
                forwards |-> 1,
                backwards |-> backward_passes(min(top_k, NumClasses), cam_layers),
                ret |-> Some(GradcamData(cam_layers, top_k,
                          Captured(reg.hooks, Range(reg.handles), model_id,
                                   "forward", Runs)
                            \cap Captured(reg.hooks, Range(reg.handles), model_id,
                                          "backward", GetsGradient))),
                hooks |-> remove_hooks(reg.hooks, reg.handles)] :
          reg \in {register_gradcam_hooks(hs, model_id, names)}}) :
        names \in {layer_modules(model_id, cam_layers)}})

\* The work that follows checkpoint `stage` cannot complete for this model:
\* load_model raises for an unregistered or unsupported id, and the feature
\* map step raises when the registry has no layers for it.
MustRaise(stage, model_id) ==
  \/ Checkpoints[stage].message = "Loading model"
     /\ (get_model_config(model_id) = None \/ model_id \notin SupportedModels)
  \/ Checkpoints[stage].message = "Extracting feature maps"
     /\ (get_model_config(model_id) = None
         \/ get_model_config(model_id)[1].layers_to_hook = <<>>)

\* Lines 251 and 318-340 on the hooks `hs` of the cached models while the
\* passes over the model complete: [raised, hooks].
Inspect(hs, stage, model_id, params) ==
  IF Checkpoints[stage].message = "Extracting feature maps"
    THEN LET activations_dict ==
               capture_activations(hs, model_id, layers_to_hook[model_id], "ok") IN
         [raised |-> activations_dict.raised, hooks |-> activations_dict.hooks]
  ELSE IF Checkpoints[stage].message = "Generating GradCAM visualizations"
    THEN LET layer_paths == layers_to_hook[model_id]
             gradcam_data == generate_gradcam_multilayer(
                               hs, model_id, params.cam_layers, params.top_k, "ok")
             cams_data == generate_gradcam_topk(
                            gradcam_data.hooks, model_id, layer_paths[Len(layer_paths)],
                            params.top_k, "ok")
         IN IF gradcam_data.raised # None
              THEN [raised |-> gradcam_data.raised, hooks |-> gradcam_data.hooks]
              ELSE [raised |-> cams_data.raised, hooks |-> cams_data.hooks]
  ELSE [raised |-> None, hooks |-> hs]

\* JobResult: asset paths carry the job id; the rest is computed from the
\* image, the model and the job parameters.
JobResult(job_id, model_id, image_bytes, params) ==
  [job_id |-> job_id, model_id |-> model_id, image_bytes |-> image_bytes,
   top_k |-> params.top_k, cam_layers |-> params.cam_layers]

At(pc) == frame.pc = pc

\* Lines 145-186: fetch the job and its inputs, mark it RUNNING.
ProcessJobBegin ==
  /\ At("process_job")
  /\ LET job_id == frame.job_id[1]
         job == Get(jobs, job_id)
         image_bytes == Get(job_data, job_id)
         params == Get(job_params, job_id)
     IN
     IF job = None THEN
       /\ frame' = [frame EXCEPT !.pc = "finally"]
       /\ UNCHANGED jobs
     ELSE IF image_bytes = None \/ image_bytes = Some(<<>>) THEN
       /\ jobs' = update_job_progress(jobs, job_id, 0,
                    Some(<<"Error: Image data not found">>), Some(FAILED))
       /\ frame' = [frame EXCEPT !.pc = "finally"]
     ELSE
       /\ jobs' = update_job_progress(jobs, job_id, Checkpoints[1].progress,
                    Some(<<Checkpoints[1].message>>), Some(RUNNING))
       /\ frame' = [frame EXCEPT
            !.pc = "pipeline", !.stage = 1,
            !.model_id = Some(job[1].model_id),
            !.image_bytes = image_bytes,
            !.job_params =
               IF params # None THEN params
               ELSE Some([top_k |-> 3,
                          cam_layers |-> get_default_cam_layers(job[1].model_id)])]
  /\ accesses' = IF frame.job_id[1] \in DOMAIN jobs
                    THEN accesses \cup UpdateJobAccesses ELSE accesses
  /\ UNCHANGED <<config, key_pair, cam_overlay, feature_maps, posted, inspect, loader, cache_calls, cache, job_data, job_params, job_queue, worker_task,
                 worker_running, stopper, last>>

\* The work after a checkpoint returns and the next checkpoint is recorded.
PipelineAdvance ==
  /\ At("pipeline")
  /\ frame.stage < Len(Checkpoints)
  /\ ~MustRaise(frame.stage, frame.model_id[1])
  /\ \E done \in {Inspect(hooks, frame.stage, frame.model_id[1], frame.job_params[1])} :
       done.raised = None /\ hooks' = done.hooks
  /\ jobs' = update_job_progress(jobs, frame.job_id[1],
               Checkpoints[frame.stage + 1].progress,
               Some(<<Checkpoints[frame.stage + 1].message>>), None)
  /\ frame' = [frame EXCEPT !.stage = @ + 1]
  /\ IF Checkpoints[frame.stage].message = "Loading model"
       THEN LET got == load_model(model_cache, MODEL_CACHE_MAX, constructed,
                                  frame.model_id[1], TRUE) IN
            /\ model_cache' = got.cache
            /\ constructed' = got.constructed
            /\ model_uses' = Used(model_uses, frame.model_id[1])
       ELSE UNCHANGED <<model_cache, constructed, model_uses>>
  /\ accesses' = accesses \cup UpdateJobAccesses
  /\ UNCHANGED <<config, key_pair, cam_overlay, feature_maps, posted, inspect_call, MODEL_CACHE_MAX, loaded, cache_calls, cache, job_data,
                 job_params, job_queue, worker_task, worker_running, stopper, last>>

\* The ways the work after the current checkpoint raises, [exc, hooks]: any
\* step of it for a reason of its own (hooks registered meanwhile are
\* removed by the finally blocks), or the capture / Grad-CAM calls for the
\* layers they were given.
PipelineFailures ==
  LET done == Inspect(hooks, frame.stage, frame.model_id[1], frame.job_params[1]) IN
  {[exc |-> e, hooks |-> hooks] : e \in Exceptions}
    \cup (IF ~MustRaise(frame.stage, frame.model_id[1]) /\ done.raised # None
            THEN {[exc |-> done.raised[1], hooks |-> done.hooks]} ELSE {})

\* The work after a checkpoint raises.
PipelineRaise ==
  /\ At("pipeline")
  /\ \E failure \in PipelineFailures :
       /\ frame' = [frame EXCEPT !.pc = "except", !.exc = Some(failure.exc)]
       /\ hooks' = failure.hooks
  /\ UNCHANGED <<config, accesses, key_pair, cam_overlay, feature_maps, posted, inspect_call, loader, cache_calls, cache, service, worker_task, worker_running, stopper,
                 last>>

\* Mutant: progress 100 is written as one more checkpoint, without the status
\* and the result.
MarkSucceededProgressOnly ==
  /\ At("pipeline")
  /\ frame.stage = Len(Checkpoints)
  /\ \E done \in {Inspect(hooks, frame.stage, frame.model_id[1], frame.job_params[1])} :
       done.raised = None /\ hooks' = done.hooks
  /\ LET job_id == frame.job_id[1]
         result == JobResult(job_id, frame.model_id[1], frame.image_bytes[1],
                             frame.job_params[1])
     IN
     /\ jobs' = IF job_id \in DOMAIN jobs
                  THEN [jobs EXCEPT ![job_id].progress = 100,
                                    ![job_id].message = <<"Job completed successfully">>]
                  ELSE jobs
     /\ frame' = [frame EXCEPT !.pc = "store", !.result = Some(result)]
  /\ accesses' = IF frame.job_id[1] \in DOMAIN jobs
                    THEN accesses \cup UpdateJobAccesses ELSE accesses
  /\ UNCHANGED <<config, key_pair, cam_overlay, feature_maps, posted, inspect_call, loader, cache_calls, cache, job_data, job_params, job_queue, worker_task,
                 worker_running, stopper, last>>

\* Lines 389-396: the result is attached and the job marked SUCCEEDED.
MarkSucceeded ==
  /\ At("pipeline")
  /\ frame.stage = Len(Checkpoints)
  /\ \E done \in {Inspect(hooks, frame.stage, frame.model_id[1], frame.job_params[1])} :
       done.raised = None /\ hooks' = done.hooks
  /\ LET job_id == frame.job_id[1]
         result == JobResult(job_id, frame.model_id[1], frame.image_bytes[1],
                             frame.job_params[1])
     IN
     /\ jobs' = IF job_id \in DOMAIN jobs
                  THEN [jobs EXCEPT ![job_id].status = SUCCEEDED,
                                    ![job_id].progress = 100,
                                    ![job_id].message = <<"Job completed successfully">>,
                                    ![job_id].result = Some(result)]
                  ELSE jobs
     /\ frame' = [frame EXCEPT !.pc = "store", !.result = Some(result)]
  /\ accesses' = IF frame.job_id[1] \in DOMAIN jobs
                    THEN accesses \cup UpdateJobAccesses ELSE accesses
  /\ UNCHANGED <<config, key_pair, cam_overlay, feature_maps, posted, inspect_call, loader, cache_calls, cache, job_data, job_params, job_queue, worker_task,
                 worker_running, stopper, last>>

\* Lines 398-402: the result is put in the cache when caching is enabled.
StoreResult ==
  /\ At("store")
  /\ LET made == ProcessJobKey(frame.image_bytes[1], frame.model_id[1])
         put == cache_set(cache, max_items, made.key[1], frame.result[1])
     IN
     IF ~CACHE_ENABLED THEN
       /\ frame' = [frame EXCEPT !.pc = "finally"]
       /\ UNCHANGED <<cache, cache_uses>>
     ELSE IF made.raised # None THEN
       /\ frame' = [frame EXCEPT !.pc = "except", !.exc = made.raised]
       /\ UNCHANGED <<cache, cache_uses>>
     ELSE
       /\ cache' = put.cache
       /\ cache_uses' = IF put.raised = None THEN Used(cache_uses, made.key[1])
                        ELSE cache_uses
       /\ frame' = [frame EXCEPT !.pc = IF put.raised # None THEN "except" ELSE "finally",
                                 !.exc = put.raised]
  /\ UNCHANGED <<config, accesses, key_pair, cam_overlay, feature_maps, posted, inspect, loader, cache_call, service, worker_task, worker_running,
                 stopper, last>>

\* Mutant: the failure message drops the exception text.
failed_message_generic(e) == <<"Job failed">>

\* Lines 406-414: except Exception.
failed_message(e) == <<"Job failed: ", e>>

\* Mutant: the handler puts the failed job back in the queue.
ExceptHandlerRetry ==
  /\ At("except")
  /\ LET job_id == frame.job_id[1] IN
     /\ jobs' = IF job_id \in DOMAIN jobs
                  THEN [jobs EXCEPT ![job_id].status = FAILED,
                                    ![job_id].message = <<"Job failed: ", frame.exc[1]>>,
                                    ![job_id].progress = 0]
                  ELSE jobs
     /\ job_queue' = Append(job_queue, job_id)
  /\ frame' = [frame EXCEPT !.pc = "finally"]
  /\ UNCHANGED <<config, accesses, key_pair, cam_overlay, feature_maps, posted, inspect, loader, cache_calls, cache, job_data, job_params, worker_task,
                 worker_running, stopper, last>>

\* Mutant: the handler only logs; the job record is left as it was.
ExceptHandlerLogOnly ==
  /\ At("except")
  /\ frame' = [frame EXCEPT !.pc = "finally"]
  /\ UNCHANGED <<config, accesses, key_pair, cam_overlay, feature_maps, posted, inspect, loader, cache_calls, cache, service, worker_task, worker_running, stopper, last>>

ExceptHandler ==
  /\ At("except")
  /\ LET job_id == frame.job_id[1] IN
     jobs' = IF job_id \in DOMAIN jobs
               THEN [jobs EXCEPT ![job_id].status = FAILED,
                                 ![job_id].message = failed_message(frame.exc[1]),
                                 ![job_id].progress = 0]
               ELSE jobs
  /\ frame' = [frame EXCEPT !.pc = "finally"]
  /\ accesses' = IF frame.job_id[1] \in DOMAIN jobs
                    THEN accesses \cup UpdateJobAccesses ELSE accesses
  /\ UNCHANGED <<config, key_pair, cam_overlay, feature_maps, posted, inspect, loader, cache_calls, cache, job_data, job_params, job_queue, worker_task,
                 worker_running, stopper, last>>

\* Mutant: the finally block forgets the stored parameters.
FinallyKeepParams ==
  /\ At("finally")
  /\ job_data' = Pop(job_data, frame.job_id[1])
  /\ frame' = [NoFrame EXCEPT !.pc = "loop", !.must_cancel = frame.must_cancel]
  /\ accesses' = accesses \cup FinallyAccesses
  /\ UNCHANGED <<config, key_pair, cam_overlay, feature_maps, posted, inspect, loader, cache_calls, cache, jobs, job_params, job_queue,
                 worker_task, worker_running, stopper, last>>

\* Lines 415-419: finally; process_job returns and the loop calls task_done.
Finally ==
  /\ At("finally")
  /\ job_data' = Pop(job_data, frame.job_id[1])
  /\ job_params' = Pop(job_params, frame.job_id[1])
  /\ frame' = [NoFrame EXCEPT !.pc = "loop", !.must_cancel = frame.must_cancel]
  /\ accesses' = accesses \cup FinallyAccesses
  /\ UNCHANGED <<config, key_pair, cam_overlay, feature_maps, posted, inspect, loader, cache_calls, cache, jobs, job_queue, worker_task, worker_running,
                 stopper, last>>

\* --------------------------------------------------------- _worker_loop
\* The task starts running: _worker_running = True.
WorkerBegin ==
  /\ At("start")
  /\ ~frame.must_cancel
  /\ worker_running' = TRUE
  /\ frame' = [frame EXCEPT !.pc = "loop"]
  /\ UNCHANGED <<config, accesses, key_pair, cam_overlay, feature_maps, posted, inspect, loader, cache_calls, cache, service, worker_task, stopper, last>>

\* while self._worker_running
WorkerLoop ==
  /\ At("loop")
  /\ IF worker_running
       THEN frame' = [frame EXCEPT !.pc = "get"] /\ UNCHANGED worker_task
       ELSE frame' = [frame EXCEPT !.pc = "done"] /\ worker_task' = "done"
  /\ UNCHANGED <<config, accesses, key_pair, cam_overlay, feature_maps, posted, inspect, loader, cache_calls, cache, service, worker_running, stopper, last>>

\* Mutant: the worker takes the newest entry of the queue instead of the oldest.
WorkerGetNewest ==
  /\ At("get")
  /\ job_queue # <<>>
  /\ job_queue' = SubSeq(job_queue, 1, Len(job_queue) - 1)
  /\ IF job_queue[Len(job_queue)] = shutdown_signal
       THEN frame' = [frame EXCEPT !.pc = "done"] /\ worker_task' = "done"
       ELSE /\ frame' = [frame EXCEPT !.pc = "process_job",
                                      !.job_id = Some(job_queue[Len(job_queue)])]
            /\ UNCHANGED worker_task
  /\ accesses' = accesses \cup GetAccesses(job_queue[Len(job_queue)])
  /\ UNCHANGED <<config, key_pair, cam_overlay, feature_maps, posted, inspect, loader, cache_calls, cache, jobs, job_data, job_params, worker_running,
                 stopper, last>>

\* Mutant: the loop does not look for the sentinel and processes it as a job.
WorkerGetNoSentinel ==
  /\ At("get")
  /\ job_queue # <<>>
  /\ job_queue' = Tail(job_queue)
  /\ frame' = [frame EXCEPT !.pc = "process_job", !.job_id = Some(Head(job_queue))]
  /\ accesses' = accesses \cup GetAccesses(Head(job_queue))
  /\ UNCHANGED <<config, key_pair, cam_overlay, feature_maps, posted, inspect, loader, cache_calls, cache, jobs, job_data, job_params,
                 worker_task, worker_running, stopper, last>>

\* Mutant: the worker reads the head of the queue and leaves a job id in it.
WorkerGetPeek ==
  /\ At("get")
  /\ job_queue # <<>>
  /\ IF Head(job_queue) = shutdown_signal
       THEN /\ frame' = [frame EXCEPT !.pc = "done"]
            /\ worker_task' = "done"
            /\ job_queue' = Tail(job_queue)
       ELSE /\ frame' = [frame EXCEPT !.pc = "process_job",
                                      !.job_id = Some(Head(job_queue))]
            /\ UNCHANGED <<worker_task, job_queue>>
  /\ accesses' = accesses \cup GetAccesses(Head(job_queue))
  /\ UNCHANGED <<config, key_pair, cam_overlay, feature_maps, posted, inspect, loader, cache_calls, cache, jobs, job_data, job_params, worker_running,
                 stopper, last>>

\* job_id = await self._job_queue.get(): blocks while the queue is empty.
WorkerGet ==
  /\ At("get")
  /\ job_queue # <<>>
  /\ job_queue' = Tail(job_queue)
  /\ IF Head(job_queue) = shutdown_signal
       THEN frame' = [frame EXCEPT !.pc = "done"] /\ worker_task' = "done"
       ELSE /\ frame' = [frame EXCEPT !.pc = "process_job",
                                      !.job_id = Some(Head(job_queue))]
            /\ UNCHANGED worker_task
  /\ accesses' = accesses \cup GetAccesses(Head(job_queue))
  /\ UNCHANGED <<config, key_pair, cam_overlay, feature_maps, posted, inspect, loader, cache_calls, cache, jobs, job_data, job_params, worker_running,
                 stopper, last>>

\* A requested cancellation reaches the task where it is suspended: before
\* its first step, or in the await of queue.get().
WorkerCancelled ==
  /\ At("start") \/ At("get")
  /\ frame.must_cancel
  /\ frame' = [frame EXCEPT !.pc = "done"]
  /\ worker_task' = "done"
  /\ UNCHANGED <<config, accesses, key_pair, cam_overlay, feature_maps, posted, inspect, loader, cache_calls, cache, service, worker_running, stopper, last>>

\* ----------------------------------------------- start_worker, stop_worker
\* Mutant: start_worker creates a task without looking at the current one.
StartWorkerAlways ==
  /\ worker_task' = "pending"
  /\ frame' = [NoFrame EXCEPT !.pc = "start"]
  /\ UNCHANGED <<config, accesses, key_pair, cam_overlay, feature_maps, posted, inspect, loader, cache_calls, cache, service, worker_running, stopper, last>>

\* A stop_worker call still in wait_for holds the old task object; once that
\* task is done its wait is over, so it does not wait for the new task.
StartWorker ==
  /\ IF worker_task = "None" \/ worker_task = "done"
       THEN /\ worker_task' = "pending"
            /\ frame' = [NoFrame EXCEPT !.pc = "start"]
            /\ stopper' = "idle"
       ELSE UNCHANGED <<worker_task, frame, stopper>>
  /\ UNCHANGED <<config, accesses, key_pair, cam_overlay, feature_maps, posted, inspect, loader, cache_calls, cache, service, worker_running, last>>

\* Lines 453-458: clear the flag, enqueue the sentinel, then wait for the task.
StopWorker ==
  /\ stopper = "idle"
  /\ Len(SelectSeq(job_queue, LAMBDA x : x = shutdown_signal)) < MaxStops
  /\ worker_running' = FALSE
  /\ job_queue' = Append(job_queue, shutdown_signal)
  /\ stopper' = IF worker_task = "pending" THEN "wait_for" ELSE "idle"
  /\ UNCHANGED <<config, accesses, key_pair, cam_overlay, feature_maps, posted, inspect, loader, cache_calls, cache, jobs, job_data, job_params, worker_task, frame,
                 last>>

\* wait_for returns because the task finished.
StopJoin ==
  /\ stopper = "wait_for"
  /\ worker_task = "done"
  /\ stopper' = "idle"
  /\ UNCHANGED <<config, accesses, key_pair, cam_overlay, feature_maps, posted, inspect, loader, cache_calls, cache, service, worker, last>>

\* wait_for times out: the task is cancelled.
StopTimeout ==
  /\ stopper = "wait_for"
  /\ worker_task = "pending"
  /\ ~frame.must_cancel
  /\ frame' = [frame EXCEPT !.must_cancel = TRUE]
  /\ UNCHANGED <<config, accesses, key_pair, cam_overlay, feature_maps, posted, inspect, loader, cache_calls, cache, service, worker_task, worker_running, stopper,
                 last>>

\* ------------------------------------------- calls of the model loaders
LoadCall(op, model_id, raised, ret) ==
  [op |-> op, model_id |-> Some(model_id), raised |-> raised, ret |-> ret,
   before |-> model_cache, count |-> constructed]

LoadModel ==
  /\ \E model_id \in LoadInputs, built \in BOOLEAN :
       LET got == load_model(model_cache, MODEL_CACHE_MAX, constructed, model_id, built) IN
       /\ got.constructed <= MaxConstructed
       /\ model_cache' = got.cache
       /\ constructed' = got.constructed
       /\ loaded' = LoadCall("load_model", model_id, got.raised, got.ret)
       /\ model_uses' = IF got.raised = None THEN Used(model_uses, model_id)
                        ELSE model_uses
  /\ UNCHANGED <<config, accesses, key_pair, cam_overlay, feature_maps, posted, inspect, MODEL_CACHE_MAX, cache_calls, cache, service, worker,
                 stopper, last>>

PreloadModel ==
  /\ \E model_id \in LoadInputs, built \in BOOLEAN :
       LET got == preload_model(model_cache, MODEL_CACHE_MAX, constructed, model_id, built) IN
       /\ got.constructed <= MaxConstructed
       /\ model_cache' = got.cache
       /\ constructed' = got.constructed
       /\ loaded' = LoadCall("preload_model", model_id, None, None)
       /\ model_uses' = IF model_id \in Keys(got.cache) \ Keys(model_cache)
                          THEN Used(model_uses, model_id) ELSE model_uses
  /\ UNCHANGED <<config, accesses, key_pair, cam_overlay, feature_maps, posted, inspect, MODEL_CACHE_MAX, cache_calls, cache, service, worker,
                 stopper, last>>

RemoveFromCache ==
  /\ \E model_id \in LoadInputs :
       /\ model_cache' = remove_from_cache(model_cache, model_id)
       /\ loaded' = LoadCall("remove_from_cache", model_id, None, None)
  /\ UNCHANGED <<config, accesses, key_pair, cam_overlay, feature_maps, posted, inspect, MODEL_CACHE_MAX, constructed, model_uses, cache_calls,
                 cache, service, worker, stopper, last>>

\* --------------------------------------------- calls of the result cache
\* A lookup or store of the result of one job: the key is computed from
\* the image, the model and the layer list as given, then get / set is called.
CacheCall(op, image_bytes, model_id, cam_layers, key, value, raised) ==
  [op |-> op, image_bytes |-> image_bytes, model_id |-> model_id,
   cam_layers |-> cam_layers, key |-> Some(key), value |-> value,
   raised |-> raised, before |-> cache]

CacheGet ==
  /\ \E image_bytes \in ImageInputs \ {<<>>}, cam_layers \in KeyLayerInputs :
       \E made \in {call_compute_cache_key(image_bytes, "resnet18",
                                           [cam_layers |-> cam_layers])} :
       \E got \in {cache_get(cache, made.key[1])} :
       /\ cache' = got.cache
       /\ cache_uses' = IF got.value # None THEN Used(cache_uses, made.key[1])
                        ELSE cache_uses
       /\ cache_call' = CacheCall("get", image_bytes, "resnet18", cam_layers,
                                  made.key[1], got.value, None)
  /\ UNCHANGED <<config, accesses, key_pair, cam_overlay, feature_maps, posted, inspect, loader, service, worker, stopper, last>>

CacheSet ==
  /\ \E image_bytes \in ImageInputs \ {<<>>}, cam_layers \in KeyLayerInputs,
        job_id \in AllJobIds :
       \E made \in {call_compute_cache_key(image_bytes, "resnet18",
                                           [cam_layers |-> cam_layers])} :
       \E value \in {JobResult(job_id, "resnet18", image_bytes,
                        [top_k |-> KeyDefaults.top_k_cam,
                         cam_layers |-> IF cam_layers = None THEN DefaultKeyLayers
                                        ELSE cam_layers[1]])} :
       \E put \in {cache_set(cache, max_items, made.key[1], value)} :
       /\ cache' = put.cache
       /\ cache_uses' = IF put.raised = None THEN Used(cache_uses, made.key[1])
                        ELSE cache_uses
       /\ cache_call' = CacheCall("set", image_bytes, "resnet18", cam_layers,
                                  made.key[1], Some(value), put.raised)
  /\ UNCHANGED <<config, accesses, key_pair, cam_overlay, feature_maps, posted, inspect, loader, service, worker, stopper, last>>

\* ------------------------------ calls of the capture / Grad-CAM functions
\* A call on the cached resnet18 model; `out` is what the function did, its
\* return value recorded under the name the caller gives it.
InspectCall(op, model_id, layers, top_k, passes, out) ==
  [op |-> op, model_id |-> model_id, layers |-> layers, top_k |-> top_k,
   passes |-> passes, raised |-> out.raised,
   activations |-> IF op = "capture_activations" THEN out.ret ELSE None,
   cams |-> IF op = "generate_gradcam_topk" THEN out.ret ELSE None,
   gradcam |-> IF op = "generate_gradcam_multilayer" THEN out.ret ELSE None,
   forwards |-> IF op = "generate_gradcam_multilayer" THEN out.forwards ELSE 0,
   backwards |-> IF op = "generate_gradcam_multilayer" THEN out.backwards ELSE <<>>,
   before |-> hooks]

CaptureActivations ==
  /\ Cardinality(hooks) <= MaxLeakedHooks
  /\ \E layer_paths \in InspectLayerInputs, passes \in PassInputs :
       \E out \in {capture_activations(hooks, "resnet18", layer_paths, passes)} :
       /\ hooks' = out.hooks
       /\ inspect_call' = InspectCall("capture_activations", "resnet18",
                                      layer_paths, 0, passes, out)
  /\ UNCHANGED <<config, accesses, key_pair, cam_overlay, feature_maps, posted, loader, cache_calls, cache, service, worker, stopper, last>>

GradcamTopk ==
  /\ Cardinality(hooks) <= MaxLeakedHooks
  /\ \E target_layer \in InspectPaths, top_k \in InspectTopK, passes \in PassInputs :
       \E out \in {generate_gradcam_topk(hooks, "resnet18", target_layer, top_k, passes)} :
       /\ hooks' = out.hooks
       /\ inspect_call' = InspectCall("generate_gradcam_topk", "resnet18",
                                      <<target_layer>>, top_k, passes, out)
  /\ UNCHANGED <<config, accesses, key_pair, cam_overlay, feature_maps, posted, loader, cache_calls, cache, service, worker, stopper, last>>

GradcamMultilayer ==
  /\ Cardinality(hooks) <= MaxLeakedHooks
  /\ \E cam_layers \in InspectLayerInputs, top_k \in InspectTopK, passes \in PassInputs :
       \E out \in {generate_gradcam_multilayer(hooks, "resnet18", cam_layers, top_k, passes)} :
       /\ hooks' = out.hooks
       /\ inspect_call' = InspectCall("generate_gradcam_multilayer", "resnet18",
                                      cam_layers, top_k, passes, out)
  /\ UNCHANGED <<config, accesses, key_pair, cam_overlay, feature_maps, posted, loader, cache_calls, cache, service, worker, stopper, last>>

\* ------------------------------------------------------- specifications
ProcessJob ==
  \/ ProcessJobBegin
  \/ PipelineAdvance
  \/ PipelineRaise
  \/ MarkSucceeded
  \/ StoreResult
  \/ ExceptHandler
  \/ Finally

WorkerStep == WorkerBegin \/ WorkerLoop \/ WorkerGet \/ ProcessJob

Next ==
  \/ CreateJob
  \/ GetJob
  \/ StartWorker
  \/ StopWorker
  \/ StopJoin
  \/ StopTimeout
  \/ WorkerCancelled
  \/ WorkerStep

Spec == Init /\ [][Next]_vars

\* The service while stop_worker is never called, its single worker task
\* scheduled fairly by the event loop.
NextRunning ==
  \/ CreateJob
  \/ GetJob
  \/ StartWorker
  \/ WorkerStep

SpecRunning == Init /\ [][NextRunning]_vars /\ WF_vars(WorkerStep)

\* The model loaders under every validated MODEL_CACHE_MAX (>= 1), called in
\* any order; the other settings at their defaults.
InitModels ==
  /\ CACHE_ENABLED = TRUE
  /\ CACHE_MAX_ITEMS = DefaultCacheMaxItems
  /\ MODEL_CACHE_MAX \in 1..MaxModelCache
  /\ InitState
  /\ feature_maps = NoFeatureMaps
  /\ cam_overlay = NoOverlay
  /\ key_pair = NoKeyPair

NextModels ==
  \/ LoadModel
  \/ PreloadModel
  \/ RemoveFromCache

SpecModels == InitModels /\ [][NextModels]_vars

\* The result cache called directly, under every capacity from 0 and with
\* caching enabled or disabled (capacity 0).
InitCache ==
  /\ CACHE_ENABLED \in BOOLEAN
  /\ CACHE_MAX_ITEMS \in 0..MaxCacheCapacity
  /\ MODEL_CACHE_MAX = DefaultModelCacheMax
  /\ InitState
  /\ feature_maps = NoFeatureMaps
  /\ cam_overlay = NoOverlay
  /\ key_pair = NoKeyPair

NextCache ==
  \/ CacheGet
  \/ CacheSet

SpecCache == InitCache /\ [][NextCache]_vars

\* Submissions through the HTTP route and through create_job, and status
\* polls, before any worker runs.
InitSubmit ==
  /\ CACHE_ENABLED \in BOOLEAN
  /\ CACHE_MAX_ITEMS = DefaultCacheMaxItems
  /\ MODEL_CACHE_MAX = DefaultModelCacheMax
  /\ InitState
  /\ feature_maps = NoFeatureMaps
  /\ cam_overlay = NoOverlay
  /\ key_pair = NoKeyPair

NextSubmit ==
  \/ PostJob
  \/ CreateJob
  \/ GetJob

SpecSubmit == InitSubmit /\ [][NextSubmit]_vars

\* The capture and Grad-CAM functions called in any order on one cached
\* model, with every outcome of the passes over the model.
InitInspect ==
  /\ CACHE_ENABLED = FALSE
  /\ CACHE_MAX_ITEMS = DefaultCacheMaxItems
  /\ MODEL_CACHE_MAX = DefaultModelCacheMax
  /\ InitState
  /\ feature_maps = NoFeatureMaps
  /\ cam_overlay = NoOverlay
  /\ key_pair = NoKeyPair

NextInspect ==
  \/ CaptureActivations
  \/ GradcamTopk
  \/ GradcamMultilayer

SpecInspect == InitInspect /\ [][NextInspect]_vars

\* The whole service, the worker task scheduled fairly by the event loop and
\* a requested cancellation delivered to it; the cache capacity, which no
\* step of the worker loop reads, at its default.
InitStopping ==
  /\ CACHE_ENABLED \in BOOLEAN
  /\ CACHE_MAX_ITEMS = DefaultCacheMaxItems
  /\ MODEL_CACHE_MAX = DefaultModelCacheMax
  /\ InitState
  /\ feature_maps = NoFeatureMaps
  /\ cam_overlay = NoOverlay
  /\ key_pair = NoKeyPair

\* Jobs submitted while the shutdown is followed: enough for a worker that is
\* busy, and for a job waiting behind or before the sentinel.
MaxStoppingJobs == 1

CreateJobStopping == CreateJob /\ Cardinality(DOMAIN jobs) < MaxStoppingJobs

NextStopping ==
  \/ CreateJobStopping
  \/ GetJob
  \/ StartWorker
  \/ StopWorker
  \/ StopJoin
  \/ StopTimeout
  \/ WorkerCancelled
  \/ WorkerStep

SpecStopping ==
  InitStopping /\ [][NextStopping]_vars /\ WF_vars(WorkerStep) /\ WF_vars(WorkerCancelled)

\* ================================================================ claims
Terminal(job_id) ==
  job_id \in DOMAIN jobs /\ jobs[job_id].status \in {SUCCEEDED, FAILED}

StatusOf(js, job_id) == js[job_id].status

C2_LegalTransitions ==
  [][\A job_id \in DOMAIN jobs :
       jobs'[job_id].status # jobs[job_id].status
         => <<jobs[job_id].status, jobs'[job_id].status>>
              \in {<<QUEUED, RUNNING>>, <<RUNNING, SUCCEEDED>>, <<RUNNING, FAILED>>}]_vars

\* C3: with the worker started and never stopped, every job that is QUEUED
\* or RUNNING eventually is SUCCEEDED or FAILED.
C3_EventuallyTerminal ==
  \A job_id \in AllJobIds :
    (/\ worker_task # "None"
     /\ job_id \in DOMAIN jobs
     /\ jobs[job_id].status \in {QUEUED, RUNNING}) ~> Terminal(job_id)

\* A job that was queued and that the worker brought to SUCCEEDED.
C3_Witness ==
  \E job_id \in DOMAIN jobs :
    /\ jobs[job_id].status = SUCCEEDED
    /\ jobs[job_id].message = <<"Job completed successfully">>
    /\ worker_task = "pending"

\* The step is a create_job call that returned or raised.
CreateJobCall == last' # last

CallLayers(call) ==
  IF call.cam_layers = None THEN get_default_cam_layers(call.model_id[1])
  ELSE call.cam_layers[1]

\* The result was computed for the arguments of the call.
ResultOf(result, call) ==
  /\ result.image_bytes = call.image_bytes[1]
  /\ result.model_id = call.model_id[1]
  /\ result.top_k = call.top_k[1]
  /\ {result.cam_layers[i] : i \in DOMAIN result.cam_layers}
       = {CallLayers(call)[i] : i \in DOMAIN CallLayers(call)}

\* C4: with the cache enabled and holding at least one entry, the key
\* create_job looks up for its arguments is the key the worker stores a result
\* of those arguments under, and a call whose result is cached returns a job
\* that is SUCCEEDED with progress 100 and that result.
C4_Idempotent ==
  [][(CreateJobCall /\ CACHE_ENABLED /\ CACHE_MAX_ITEMS >= 1
        /\ CallLayers(last') # <<>>)
       => LET call == last'
              lookup == CreateJobKey(call.image_bytes[1], call.model_id[1],
                                     call.top_k[1], CallLayers(call))
              stored == ProcessJobKey(call.image_bytes[1], call.model_id[1])
          IN /\ lookup.raised = None
             /\ lookup.key = stored.key
             /\ \A i \in 1..Len(cache) :
                  ResultOf(cache[i].value, call)
                    => /\ call.hit
                       /\ jobs'[call.ret[1]].status = SUCCEEDED
                       /\ jobs'[call.ret[1]].progress = 100
                       /\ jobs'[call.ret[1]].result = Some(cache[i].value)]_vars

\* The parameter set a queued job was submitted with.
ParameterSet(job_id) ==
  <<job_data[job_id], jobs[job_id].model_id, job_params[job_id].top_k,
    {job_params[job_id].cam_layers[i] : i \in DOMAIN job_params[job_id].cam_layers}>>

C6_MissQueuesJob ==
  [][(CreateJobCall /\ last'.cam_layers # None /\ ~last'.hit)
       => /\ last'.raised = None
          /\ last'.ret # None
          /\ LET job_id == last'.ret[1] IN
             /\ job_id \notin DOMAIN jobs
             /\ DOMAIN jobs' = DOMAIN jobs \cup {job_id}
             /\ \A j \in DOMAIN jobs : jobs'[j] = jobs[j]
             /\ jobs'[job_id].status = QUEUED
             /\ jobs'[job_id].progress = 0
             /\ job_data' = Put(job_data, job_id, last'.image_bytes[1])
             /\ job_params' = Put(job_params, job_id,
                                  [top_k |-> last'.top_k[1],
                                   cam_layers |-> last'.cam_layers[1]])
             /\ job_queue' = Append(job_queue, job_id)]_vars

\* C7: a create_job call that hits the cache adds a job that is SUCCEEDED
\* with progress 100 and the cached result, and leaves the queue, the stored
\* bytes and the stored parameters as they were.
C7_HitCreatesSucceededJob ==
  [][(CreateJobCall /\ last'.hit)
       => /\ last'.raised = None
          /\ jobs'[last'.ret[1]].status = SUCCEEDED
          /\ jobs'[last'.ret[1]].progress = 100
          /\ jobs'[last'.ret[1]].result # None
          /\ UNCHANGED <<job_queue, job_data, job_params>>]_vars

\* C8: at most one job is RUNNING.
C8_AtMostOneRunning ==
  Cardinality({job_id \in DOMAIN jobs : jobs[job_id].status = RUNNING}) <= 1

\* A job is RUNNING while another waits in the queue and stop_worker waits
\* for the worker.
C8_Witness ==
  /\ stopper = "wait_for"
  /\ \E a, b \in DOMAIN jobs :
       jobs[a].status = RUNNING /\ jobs[b].status = QUEUED

\* C9: a job does not become RUNNING while a job enqueued before it is
\* still QUEUED.
C9_Fifo ==
  [][\A i, j \in 1..MaxJobs :
       (/\ i < j
        /\ JobId(j) \in DOMAIN jobs
        /\ jobs[JobId(j)].status # RUNNING
        /\ jobs'[JobId(j)].status = RUNNING)
         => jobs[JobId(i)].status # QUEUED]_vars

\* The later of two queued jobs is RUNNING after the earlier one was processed.
C9_Witness ==
  \E i, j \in 1..MaxJobs :
    /\ i < j
    /\ JobId(j) \in DOMAIN jobs
    /\ jobs[JobId(j)].status = RUNNING
    /\ jobs[JobId(i)].message # <<"Job completed (cached)">>
    /\ Terminal(JobId(i))

InQueue(job_id) == \E i \in 1..Len(job_queue) : job_queue[i] = job_id

InMessage(e, message) == \E i \in 1..Len(message) : message[i] = e

\* process_job has handled an exception of the job it is leaving.
HandledException == At("finally") /\ frame.exc # None

\* C10: a job whose pipeline raised is FAILED with the exception text in its
\* message, the worker task goes on, and the jobs waiting in the queue at
\* that moment are processed to a terminal status.
C10_FailureIsContained ==
  /\ [](HandledException
          => /\ jobs[frame.job_id[1]].status = FAILED
             /\ InMessage(frame.exc[1], jobs[frame.job_id[1]].message))
  /\ [][frame.exc # None => worker_task' = "pending"]_vars
  /\ \A job_id \in AllJobIds :
       (HandledException /\ InQueue(job_id)) ~> Terminal(job_id)

\* An exception was handled while another job waits in the queue.
C10_Witness == HandledException /\ job_queue # <<>>

\* C11: when process_job leaves for a job id, on every exit path, the id is
\* in neither the stored-bytes map nor the stored-parameters map, and it
\* does not come back: an id in either map is still queued or in process.
C11_InputsCleared ==
  /\ [][(At("finally") /\ frame'.pc # "finally")
         => /\ frame.job_id[1] \notin DOMAIN job_data'
            /\ frame.job_id[1] \notin DOMAIN job_params']_vars
  /\ [](\A job_id \in DOMAIN job_data \cup DOMAIN job_params :
          InQueue(job_id) \/ frame.job_id = Some(job_id))

\* process_job has returned for a job that had no image data and for a job
\* that succeeded, and both maps are empty.
C11_Witness ==
  /\ At("loop")
  /\ DOMAIN job_data = {} /\ DOMAIN job_params = {}
  /\ \E a, b \in DOMAIN jobs :
       /\ jobs[a].message = <<"Error: Image data not found">>
       /\ jobs[b].status = SUCCEEDED

\* A job id that was pending when stop_worker enqueued a sentinel: it sits
\* in the queue ahead of that sentinel.
PendingAtStop(q, job_id) ==
  \E i, j \in 1..Len(q) : i < j /\ q[i] = job_id /\ q[j] = shutdown_signal

\* C12: when the wait of stop_worker ends because the worker stopped by
\* itself (no timeout, no cancellation), no job that was pending in the
\* queue when stop_worker was called is still QUEUED.
C12_ShutdownDrains ==
  [][(stopper = "wait_for" /\ stopper' = "idle" /\ ~frame.must_cancel)
       => \A job_id \in DOMAIN jobs :
            PendingAtStop(job_queue, job_id) => jobs[job_id].status # QUEUED]_vars

\* C13: once stop_worker waits for the worker, the worker task eventually is
\* done, and the sentinel is never handled as a job: process_job is not
\* called for it and no record or stored input exists under it.
C13_StopEndsWorker ==
  /\ (stopper = "wait_for") ~> (worker_task = "done")
  /\ [](/\ frame.job_id # Some(shutdown_signal)
        /\ shutdown_signal \notin DOMAIN jobs \cup DOMAIN job_data \cup DOMAIN job_params)

\* stop_worker waits, and the worker that was blocked on the empty queue has
\* taken the sentinel and left its loop.
C13_Witness ==
  /\ stopper = "wait_for"
  /\ worker_task = "done"
  /\ ~frame.must_cancel
  /\ job_queue = <<>>
  /\ DOMAIN jobs = {}

\* C14: the model cache never holds more than MODEL_CACHE_MAX models, and
\* never two entries of one model id.
C14_ModelCacheBounded ==
  /\ Len(model_cache) <= MODEL_CACHE_MAX
  /\ Cardinality(Keys(model_cache)) = Len(model_cache)

\* The cache is full and a load_model call has just evicted an entry.
C14_Witness ==
  /\ Len(model_cache) = MODEL_CACHE_MAX
  /\ loaded.op = "load_model"
  /\ Len(loaded.before) = MODEL_CACHE_MAX
  /\ loaded.model_id[1] \notin Keys(loaded.before)
  /\ loaded.raised = None

\* The step is a load_model call.
LoadModelCall == loaded' # loaded /\ loaded'.op = "load_model"

\* The step is a load_model call that inserts a new id into the full cache.
InsertIntoFull ==
  /\ LoadModelCall
  /\ loaded'.raised = None
  /\ loaded'.model_id[1] \notin Keys(model_cache)
  /\ Len(model_cache) = MODEL_CACHE_MAX

\* The call before this step was a load_model hit on an entry still cached.
Reaccessed(model_id) ==
  /\ loaded.op = "load_model"
  /\ loaded.raised = None
  /\ loaded.model_id = Some(model_id)
  /\ model_id \in Keys(loaded.before)

\* The insert evicts exactly the least recently used entry and keeps the rest.
EvictsLeastRecent ==
  /\ Keys(model_cache) \ Keys(model_cache') = {LeastRecent(model_uses, Keys(model_cache))}
  /\ Keys(model_cache') \ Keys(model_cache) = {loaded'.model_id[1]}
  /\ model_cache'[Len(model_cache')].key = loaded'.model_id[1]

\* C15 as stated: for every capacity >= 1, a load_model insert into a full
\* cache evicts exactly the least recently used entry, and an entry that
\* load_model re-accessed immediately before the insert is not evicted.
C15_LruDiscipline ==
  [][InsertIntoFull
       => /\ EvictsLeastRecent
          /\ \A model_id \in Keys(model_cache) :
               Reaccessed(model_id) => model_id \in Keys(model_cache')]_vars

\* C15 amended: the insert evicts exactly the least recently used entry for
\* every capacity >= 1; an entry re-accessed immediately before the insert
\* survives it when the capacity is at least 2.
C15_LruDisciplineAmended ==
  [][InsertIntoFull
       => /\ EvictsLeastRecent
          /\ \A model_id \in Keys(model_cache) :
               (Reaccessed(model_id) /\ MODEL_CACHE_MAX >= 2)
                 => model_id \in Keys(model_cache')]_vars

\* An insert into a full cache of two models in which the model constructed
\* first had been re-accessed: the other one was evicted.
C15_Witness ==
  /\ loaded.op = "load_model" /\ loaded.raised = None
  /\ MODEL_CACHE_MAX = 2
  /\ Len(loaded.before) = 2
  /\ loaded.model_id[1] \notin Keys(loaded.before)
  /\ loaded.before[1].value > loaded.before[2].value
  /\ model_cache = <<loaded.before[2], [key |-> loaded.model_id[1], value |-> loaded.ret[1]]>>

\* C16: a load_model call for a cached id returns the cached handle and
\* constructs nothing; the handle a call returned is the one the cache holds
\* after it; and an entry keeps its handle until it is evicted or removed.
C16_SameHandle ==
  /\ [][(LoadModelCall /\ loaded'.model_id[1] \in Keys(model_cache))
         => /\ loaded'.raised = None
            /\ loaded'.ret = Some(model_cache[IndexOf(model_cache, loaded'.model_id[1])].value)
            /\ constructed' = constructed]_vars
  /\ []((loaded.op = "load_model" /\ loaded.raised = None)
          => /\ loaded.model_id[1] \in Keys(model_cache)
             /\ model_cache[IndexOf(model_cache, loaded.model_id[1])].value = loaded.ret[1])
  /\ [][\A k \in Keys(model_cache) \cap Keys(model_cache') :
           model_cache'[IndexOf(model_cache', k)].value
             = model_cache[IndexOf(model_cache, k)].value]_vars

\* A second load_model call for a model returned the handle of the first
\* after other models were constructed in between.
C16_Witness ==
  /\ loaded.op = "load_model" /\ loaded.raised = None
  /\ loaded.model_id[1] \in Keys(loaded.before)
  /\ loaded.ret[1] < constructed
  /\ loaded.count = constructed

\* C17: a load_model call for an id that is not cached and is missing from
\* the registry or from the supported models raises and leaves the model
\* cache as it was; no failed call adds or reorders an entry.
C17_FailedLoadNotCached ==
  [][LoadModelCall
       => /\ (/\ loaded'.model_id[1] \notin Keys(model_cache)
               /\ \/ get_model_config(loaded'.model_id[1]) = None
                  \/ loaded'.model_id[1] \notin SupportedModels)
              => loaded'.raised # None
          /\ loaded'.raised # None
              => model_cache' = model_cache /\ model_uses' = model_uses]_vars

\* A registered model without a constructor was refused while the cache held
\* two models.
C17_Witness ==
  /\ loaded.op = "load_model"
  /\ loaded.model_id = Some("custom")
  /\ loaded.raised = Some("ValueError")
  /\ Len(model_cache) = 2
  /\ model_cache = loaded.before

\* The orderings of the elements of a list.
Orderings(s) ==
  {p \in [1..Len(s) -> {s[i] : i \in 1..Len(s)}] :
     \A x \in {s[i] : i \in 1..Len(s)} :
       Cardinality({i \in 1..Len(s) : p[i] = x})
         = Cardinality({i \in 1..Len(s) : s[i] = x})}

\* C18: the key computed for a layer list is the key of every permutation
\* of that list, the other arguments being equal.
C18_KeyOrderIndependent ==
  (cache_call.op # "none" /\ cache_call.cam_layers # None)
    => \A p \in Orderings(cache_call.cam_layers[1]) :
         compute_cache_key(cache_call.image_bytes, cache_call.model_id,
                           KeyDefaults.top_k_preds, KeyDefaults.top_k_cam,
                           Some(p), KeyDefaults.cam_layer_mode,
                           KeyDefaults.feature_map_limit)
           = cache_call.key[1]

\* A lookup with an unsorted layer list hit a result stored under another
\* ordering of the same layers.
C18_Witness ==
  /\ cache_call.op = "get"
  /\ cache_call.cam_layers = Some(<<"layer4", "layer2", "layer3">>)
  /\ cache_call.value # None
  /\ cache_call.value[1].cam_layers = <<"layer2", "layer3", "layer4">>

\* The step is a CacheService.set call.
CacheSetCall == cache_call' # cache_call /\ cache_call'.op = "set"

\* C19: the result cache never holds more than max_items entries nor two
\* entries of one key, and a set on a key already present keeps the number
\* of entries and the keys and makes that key the most recently used.
C19_CacheBounded ==
  /\ [](/\ Len(cache) <= max_items
        /\ Cardinality(Keys(cache)) = Len(cache))
  /\ [][(CacheSetCall /\ cache_call'.key[1] \in Keys(cache))
         => /\ cache_call'.raised = None
            /\ Len(cache') = Len(cache)
            /\ Keys(cache') = Keys(cache)
            /\ cache'[Len(cache')].key = cache_call'.key[1]]_vars

\* A set on a key that was present, and not the most recent one, in a full
\* cache of two entries.
C19_Witness ==
  /\ cache_call.op = "set"
  /\ max_items = 2
  /\ Len(cache_call.before) = 2
  /\ cache_call.before[1].key = cache_call.key[1]
  /\ Len(cache) = 2
  /\ cache[2].key = cache_call.key[1]

\* C20: a set of a new key into a full cache of capacity >= 1 evicts exactly
\* the key whose latest use, by a get hit or by a set, is the oldest, and
\* the new key becomes the most recently used.
C20_CacheLru ==
  [][(/\ CacheSetCall
      /\ cache_call'.key[1] \notin Keys(cache)
      /\ max_items >= 1
      /\ Len(cache) = max_items)
       => /\ cache_call'.raised = None
          /\ Keys(cache) \ Keys(cache') = {LeastRecent(cache_uses, Keys(cache))}
          /\ Keys(cache') \ Keys(cache) = {cache_call'.key[1]}
          /\ cache'[Len(cache')].key = cache_call'.key[1]]_vars

\* A set of a new key into a full cache of two entries evicted the entry at
\* the old end and kept the other one, results of different jobs.
C20_Witness ==
  /\ cache_call.op = "set"
  /\ max_items = 2
  /\ Len(cache_call.before) = 2
  /\ cache_call.key[1] \notin Keys(cache_call.before)
  /\ cache = <<cache_call.before[2],
               [key |-> cache_call.key[1], value |-> cache_call.value[1]]>>
  /\ cache_call.before[2].value.job_id = JobId(1)
  /\ cache_call.before[1].value.job_id = JobId(2)
  /\ cache_call.value[1].job_id = JobId(2)

\* C21: with capacity 0 the result cache is disabled: it stays empty, a set
\* completes without raising and a get misses.
C21_ZeroCapacityDisables ==
  /\ [](max_items = 0 => cache = <<>>)
  /\ [][(cache_call' # cache_call /\ max_items = 0)
         => /\ cache_call'.raised = None
            /\ cache_call'.op = "get" => cache_call'.value = None]_vars

\* The step is a call of capture_activations, generate_gradcam_topk or
\* generate_gradcam_multilayer.
InspectStep == inspect_call' # inspect_call

\* C22: when capture_activations, generate_gradcam_topk or
\* generate_gradcam_multilayer returns or raises, the hooks on the cached
\* model are those that were on it before the call.
C22_HooksRemoved == [][InspectStep => hooks' = hooks]_vars

MultilayerCall ==
  /\ InspectStep
  /\ inspect_call'.op = "generate_gradcam_multilayer"
  /\ inspect_call'.passes = "ok"

\* An overlay can be made for the layer: the path leads to a module that the
\* forward pass calls and that gradients reach.
LayerSucceeds(model_id, layer) == PathKind(model_id, layer) = "module"

\* C24: when some but not all requested layers fail, the call returns, every
\* selected class has an entry whose overlays are exactly the layers that
\* succeeded, in requested order, and the warnings list is not empty.
C24_LayerFailureIsolated ==
  [][MultilayerCall
       => LET call == inspect_call'
              Ok(l) == LayerSucceeds(call.model_id, l)
              good == SelectSeq(call.layers, Ok)
          IN
          (good # <<>> /\ good # call.layers)
            => /\ call.raised = None
               /\ Len(call.gradcam[1].classes) = min(call.top_k, NumClasses)
               /\ \A c \in DOMAIN call.gradcam[1].classes :
                    call.gradcam[1].classes[c].overlays = good
               /\ call.gradcam[1].warnings # None]_vars

\* C25: generate_gradcam_multilayer raises if and only if none of the
\* requested layers resolves to a layer of the model.
C25_FatalOnlyWhenNoneResolves ==
  [][MultilayerCall
       => LET call == inspect_call' IN
          call.raised # None
            <=> \A l \in Range(call.layers) :
                  ~IsModule(PathKind(call.model_id, l))]_vars

\* The step creates a job record.
CreatedJobs == DOMAIN jobs' \ DOMAIN jobs

\* The caller of the step gave no layer list: the form of the POST had no
\* cam_layers field, or create_job was called with cam_layers = None.
NoLayersSupplied ==
  IF posted' # posted THEN posted'.cam_layers = None
  ELSE last' # last /\ last'.cam_layers = None

\* C26: a job submitted without a layer list, through the HTTP route or
\* through create_job, gets the default explanation layers the registry
\* gives for its model.
C26_DefaultLayersFromRegistry ==
  [][(CreatedJobs # {} /\ NoLayersSupplied)
       => \A job_id \in CreatedJobs :
            /\ job_id \in DOMAIN job_params'
            /\ job_params'[job_id].cam_layers
                 = get_default_cam_layers(jobs'[job_id].model_id)]_vars

\* The step is a POST /jobs request.
PostStep == posted' # posted

\* The request of the step fails a validation rule of the route.
Rejected(request) ==
  \/ request.content_type \in {None, Some("text/plain")}
  \/ get_model_config(request.model_id) = None
  \/ Len(request.image) = 0
  \/ Len(request.image) > DefaultMaxUploadSizeMB * BytesPerMB
  \/ request.top_k # None /\ request.top_k[1] \notin 1..5
  \/ request.cam_layers # None
     /\ \A i \in 1..Len(request.cam_layers[1]) : request.cam_layers[1][i] \in {"", " "}

\* C27: a submission that fails validation is answered with an error and
\* changes no state of the job service: no job record is created, nothing is
\* stored for a job, and nothing is enqueued.
C27_RejectedChangesNothing ==
  [][(PostStep /\ Rejected(posted'))
       => /\ posted'.status \in {400, 404}
          /\ posted'.job_id = None
          /\ UNCHANGED <<jobs, job_data, job_params, job_queue, cache>>]_vars

\* A request with top_k = 6 was rejected while a job of an earlier request
\* is queued.
C27_Witness ==
  /\ posted.status = 400
  /\ posted.top_k = Some(6)
  /\ posted.content_type = Some("image/png")
  /\ posted.model_id = "resnet18"
  /\ posted.image = <<"x">>
  /\ Len(job_queue) = 1
  /\ DOMAIN jobs = {JobId(1)}

\* ---------------------------------------------------------------------------
\* Feature maps (inspect/feature_maps.py).
\*
\* An activation tensor [1, C, H, W] is a sequence of C channels; a channel is
\* the sequence of its H * W values.  The mean, the minimum, the maximum and
\* the elementwise normalisation do not depend on how the values are arranged
\* in rows.  Values are whole multiples of the tolerance 1e-6 of
\* feature_maps.py:74, so that Epsilon is the unit; sums, differences and
\* quotients are exact, and float32 rounding is not represented.

\* The tolerance 1e-6 of feature_maps.py:74 and :78, in units of itself.
Epsilon == 1

Values == (0 - MaxValue)..MaxValue

\* The shapes (C, H * W) of tensors with at most MaxElements elements.
Shapes ==
  {shape \in (1..MaxElements) \X (1..MaxElements) : shape[1] * shape[2] <= MaxElements}

Tensors == UNION {[1..shape[1] -> [1..shape[2] -> Values]] : shape \in Shapes}

\* save_feature_maps is called with top_k=32 by the job service; the inputs
\* cover fewer, as many and more channels than the tensor has.
MapTopKInputs == 0..(MaxElements + 1)

RECURSIVE Sum(_)
Sum(s) == IF s = <<>> THEN 0 ELSE s[1] + Sum(Tail(s))

\* torch.mean(activations, dim=(1, 2)) and np.mean(channel): an exact fraction.
mean(channel) == [num |-> Sum(channel), den |-> Len(channel)]

\* a >= b for two fractions with positive denominators.
MeanGE(a, b) == a.num * b.den >= b.num * a.den

np_min(channel) == CHOOSE v \in Range(channel) : \A w \in Range(channel) : v <= w

np_max(channel) == CHOOSE v \in Range(channel) : \A w \in Range(channel) : v >= w

\* torch.topk(..., largest=False): the candidates for the next position.
smallest(values, remaining) ==
  {i \in remaining : \A j \in remaining : MeanGE(values[j], values[i])}

\* torch.topk(..., largest=True): the candidates for the next position are the
\* remaining indices of greatest value; which of several equal ones comes
\* first is not specified by torch.
largest(values, remaining) ==
  {i \in remaining : \A j \in remaining : MeanGE(values[i], values[j])}

\* torch.topk(values, k, largest=True) with sorted results: every index
\* sequence it may return.
RECURSIVE topk_from(_, _, _)
topk_from(values, remaining, k) ==
  IF k = 0 THEN {<<>>}
  ELSE UNION {{<<i>> \o rest : rest \in topk_from(values, remaining \ {i}, k - 1)} :
                i \in largest(values, remaining)}

topk(values, k) == topk_from(values, DOMAIN values, k)

\* (channel - channel_min) / (channel_max_val - channel_min) * 255.0 for one
\* value, as a fraction.
scale_unshifted(x, lo, hi) == [num |-> x * 255, den |-> hi - lo]

scale(x, lo, hi) == [num |-> (x - lo) * 255, den |-> hi - lo]

\* np.clip(normalized, 0, 255).astype(np.uint8) for one value num / den with
\* den > 0: clipped, then truncated.
to_uint8(value) ==
  IF value.num <= 0 THEN 0
  ELSE IF value.num >= 255 * value.den THEN 255
  ELSE value.num \div value.den

\* feature_maps.py:70-81: the grayscale image of one channel.
normalize(channel) ==
  Only({IF hi - lo > Epsilon
          THEN [i \in DOMAIN channel |-> to_uint8(scale(channel[i], lo, hi))]
        ELSE IF hi < Epsilon
          THEN [i \in DOMAIN channel |-> to_uint8([num |-> 0, den |-> 1])]
          ELSE [i \in DOMAIN channel |-> to_uint8([num |-> 255, den |-> 1])] :
        lo \in {np_min(channel)}, hi \in {np_max(channel)}})

\* f"ch_{channel_idx}.png" below layer_dir.
FileName(channel_idx) == <<"ch_", channel_idx, ".png">>

\* One manifest entry (feature_maps.py:97-102); channel indices count from 0.
ManifestEntry(activations, index) ==
  [channel_index |-> index - 1,
   mean |-> mean(activations[index]),
   max |-> np_max(activations[index]),
   file_path |-> FileName(index - 1)]

\* save_feature_maps for one choice of torch.topk: the manifest and the files.
save_feature_maps(activations, top_indices) ==
  [manifest |-> [n \in DOMAIN top_indices |-> ManifestEntry(activations, top_indices[n])],
   files |-> {[path |-> FileName(top_indices[n] - 1),
               image |-> normalize(activations[top_indices[n]])] :
                n \in DOMAIN top_indices}]

channel_means(activations) == [c \in DOMAIN activations |-> mean(activations[c])]

SaveFeatureMaps ==
  /\ ~feature_maps.saved
  /\ \E activations \in {feature_maps.activation_tensor} :
     \E k \in {min(feature_maps.top_k, Len(activations))} :
     \E top_indices \in topk(channel_means(activations), k) :
     \E out \in {save_feature_maps(activations, top_indices)} :
       feature_maps' = [feature_maps EXCEPT !.saved = TRUE,
                                            !.manifest = out.manifest,
                                            !.files = out.files]
  /\ UNCHANGED <<config, accesses, key_pair, cam_overlay, posted, inspect, loader, cache_calls, cache, service, worker, stopper, last>>

InitFeatureMaps ==
  /\ CACHE_ENABLED = FALSE
  /\ CACHE_MAX_ITEMS = DefaultCacheMaxItems
  /\ MODEL_CACHE_MAX = DefaultModelCacheMax
  /\ InitState
  /\ cam_overlay = NoOverlay
  /\ key_pair = NoKeyPair
  /\ \E activation_tensor \in Tensors, top_k \in MapTopKInputs :
       feature_maps = [NoFeatureMaps EXCEPT !.activation_tensor = activation_tensor,
                                            !.top_k = top_k]

NextFeatureMaps == SaveFeatureMaps

SpecFeatureMaps == InitFeatureMaps /\ [][NextFeatureMaps]_vars

\* The channels save_feature_maps selected, with their images.
Selected ==
  {[channel |-> feature_maps.activation_tensor[entry.channel_index + 1],
    image |-> Only({file.image : file \in {f \in feature_maps.files :
                                             f.path = entry.file_path}})] :
     entry \in Range(feature_maps.manifest)}

IsConstant(channel) == np_max(channel) - np_min(channel) <= Epsilon

\* C28: for a selected channel whose max - min is not greater than epsilon,
\* the image is all zero when the constant value is approximately 0 (within
\* epsilon of 0) and all 255 for every other constant value, positive or
\* negative (farther than epsilon from 0).
C28_ConstantChannelRule ==
  feature_maps.saved =>
    \A sel \in Selected :
      IsConstant(sel.channel) =>
        /\ (\A v \in Range(sel.channel) : v < Epsilon /\ 0 - v < Epsilon)
             => \A p \in Range(sel.image) : p = 0
        /\ (\A v \in Range(sel.channel) : v > Epsilon \/ 0 - v > Epsilon)
             => \A p \in Range(sel.image) : p = 255

\* C29: for a selected channel with max - min > epsilon, every pixel of the
\* image is in 0..255, every max-valued input maps to 255, every min-valued
\* input maps to 0, and a greater input never gets a smaller pixel.
C29_Normalization ==
  feature_maps.saved =>
    \A sel \in Selected :
      ~IsConstant(sel.channel) =>
        /\ DOMAIN sel.image = DOMAIN sel.channel
        /\ \A i \in DOMAIN sel.channel :
             /\ sel.image[i] \in 0..255
             /\ sel.channel[i] = np_max(sel.channel) => sel.image[i] = 255
             /\ sel.channel[i] = np_min(sel.channel) => sel.image[i] = 0
             /\ \A j \in DOMAIN sel.channel :
                  sel.channel[i] <= sel.channel[j] => sel.image[i] <= sel.image[j]

\* A channel with a value strictly between its extremes was normalised, and
\* that value got a pixel strictly between 0 and 255.
C29_Witness ==
  /\ feature_maps.saved
  /\ \E sel \in Selected :
       /\ ~IsConstant(sel.channel)
       /\ \E i \in DOMAIN sel.channel :
            /\ np_min(sel.channel) < sel.channel[i]
            /\ sel.channel[i] < np_max(sel.channel)
            /\ 0 < sel.image[i]
            /\ sel.image[i] < 255

\* The channel indices of the manifest, in its order.
ManifestIndices ==
  [n \in DOMAIN feature_maps.manifest |-> feature_maps.manifest[n].channel_index]

\* The spatial mean of the channel with a given index (counted from 0).
SpatialMean(channel_index) == mean(feature_maps.activation_tensor[channel_index + 1])

\* C30: on a tensor with C channels and a requested top_k, the manifest has
\* exactly min(top_k, C) entries, their channel indices are pairwise distinct
\* and listed in descending order of spatial mean, and every selected
\* channel's mean is >= the mean of every channel that was not selected.
C30_TopChannels ==
  feature_maps.saved =>
    LET C == Len(feature_maps.activation_tensor)
        chosen == Range(ManifestIndices)
    IN /\ Len(feature_maps.manifest) = min(feature_maps.top_k, C)
       /\ chosen \subseteq 0..(C - 1)
       /\ \A m, n \in DOMAIN ManifestIndices :
            /\ m # n => ManifestIndices[m] # ManifestIndices[n]
            /\ m < n => MeanGE(SpatialMean(ManifestIndices[m]),
                               SpatialMean(ManifestIndices[n]))
       /\ \A inside \in chosen, outside \in (0..(C - 1)) \ chosen :
            MeanGE(SpatialMean(inside), SpatialMean(outside))

\* Fewer channels were requested than the tensor has: two channels of
\* different means were selected and one of strictly smaller mean was left out.
C30_Witness ==
  /\ feature_maps.saved
  /\ feature_maps.top_k < Len(feature_maps.activation_tensor)
  /\ Len(feature_maps.manifest) >= 2
  /\ ~MeanGE(SpatialMean(ManifestIndices[2]), SpatialMean(ManifestIndices[1]))
  /\ \E outside \in (0..(Len(feature_maps.activation_tensor) - 1)) \ Range(ManifestIndices) :
       ~MeanGE(SpatialMean(outside), SpatialMean(ManifestIndices[2]))

\* ---------------------------------------------------------------------------
\* Grad-CAM arithmetic (inspect/gradcam.py): the saliency map of one layer and
\* class, its resize, the colormap and the alpha blending.
\*
\* Activations and gradients are tensors [1, C, H, W] with H = 1, written as
\* sequences of C rows; values are whole multiples of the tolerance 1e-6
\* (Epsilon).  The saliency map and the images are rows of exact fractions
\* [num, den]; float32 rounding is not represented.

CamShapes == {<<1, 3>>, <<2, 2>>}

CamActivationValues == {0, 1, 3}

CamGradientValues == {0 - 1, 1}

CamTensors(values) == UNION {[1..shape[1] -> [1..shape[2] -> values]] : shape \in CamShapes}

\* original_image.size[0]: the width the saliency map is resized to.
OriginalWidths == {3, 5}

\* original_image: every pixel has the same colour, one of these.
OriginalColours == {<<0, 0, 0>>, <<255, 255, 255>>, <<200, 100, 0>>}

\* alpha in hundredths; 45 is the default 0.45.
AlphaInputs == {0, 45, 100}

\* F.relu
relu(x) == IF x > 0 THEN x ELSE 0

RECURSIVE WeightedSum(_, _, _, _)
WeightedSum(activations, gradients, p, c) ==
  IF c = 0 THEN 0
  ELSE Sum(gradients[c]) * activations[c][p] + WeightedSum(activations, gradients, p, c - 1)

\* gradcam.py:319-333: F.relu(torch.sum(weights * activations, dim=1)), where
\* weights are the spatial means of the gradients.  The result is the row of
\* numerators over the common denominator W (the number of values averaged).
cam_relu(activations, gradients) ==
  [p \in DOMAIN activations[1] |->
     relu(WeightedSum(activations, gradients, p, Len(activations)))]

\* (cam - cam_min) / (cam_max - cam_min) for one value.
cam_scale_unshifted(x, lo, hi) == [num |-> x, den |-> hi - lo]

cam_scale(x, lo, hi) == [num |-> x - lo, den |-> hi - lo]

\* gradcam.py:304-343.  cam_max - cam_min > 1e-6 is compared on the numerators,
\* both sides multiplied by the common denominator.
compute_cam_from_activations_gradients(activations, gradients) ==
  Only({Only({IF hi - lo > Epsilon * Len(cam)
                THEN [p \in DOMAIN cam |-> cam_scale(cam[p], lo, hi)]
                ELSE [p \in DOMAIN cam |-> [num |-> 0, den |-> 1]] :
              lo \in {np_min(cam)}, hi \in {np_max(cam)}}) :
        cam \in {cam_relu(activations, gradients)}})

\* The weight, times 2 * width, that the bilinear filter gives input pixel i
\* for output pixel x when a row of n pixels is enlarged to width pixels:
\* 1 - |(i + 0.5) - (x + 0.5) * n / width| where positive, pixels counted from 0.
BilinearWeight(i, x, n, width) ==
  Only({relu(2 * width - (IF d < 0 THEN 0 - d ELSE d)) :
        d \in {(2 * (i - 1) + 1) * width - (2 * (x - 1) + 1) * n}})

RECURSIVE BilinearSum(_, _, _, _, _)
BilinearSum(row, x, width, i, weighted) ==
  IF i = 0 THEN 0
  ELSE (IF weighted THEN row[i].num ELSE 1) * BilinearWeight(i, x, Len(row), width)
       + BilinearSum(row, x, width, i - 1, weighted)

\* Image.fromarray(cam_np).resize(original_size, Image.BILINEAR) for a row
\* whose values share one denominator: every output pixel is the average of
\* the input pixels, weighted by the bilinear filter.
resize(row, width) ==
  [x \in 1..width |->
     [num |-> BilinearSum(row, x, width, Len(row), TRUE),
      den |-> row[1].den * BilinearSum(row, x, width, Len(row), FALSE)]]

\* astype(np.uint8) of a fraction in 0..255: truncation.
astype_uint8(num, den) == num \div den

\* apply_colormap for one pixel s = num / den in [0, 1]: <<red, green, blue>>.
apply_colormap(s) ==
  <<astype_uint8(s.num * 255, s.den),
    astype_uint8((IF 2 * s.num < s.den THEN s.den - 2 * s.num ELSE 2 * s.num - s.den) * 255,
                 s.den),
    astype_uint8((s.den - s.num) * 255, s.den)>>

\* gradcam.py:647-652 for one channel of one pixel:
\* clip(((1 - alpha) * original / 255 + alpha * heatmap / 255) * 255, 0, 255).
blend(original, heatmap, alpha) ==
  to_uint8([num |-> (100 - alpha) * original + alpha * heatmap, den |-> 100])

\* gradcam.py:635-653: the overlay of one layer for one class.
make_overlay(activations, gradients, width, colour, alpha) ==
  LET cam == compute_cam_from_activations_gradients(activations, gradients)
      resized == resize(cam, width)
      heatmap == [x \in DOMAIN resized |-> apply_colormap(resized[x])]
  IN [cam |-> cam, resized |-> resized, heatmap |-> heatmap,
      overlay |-> [x \in DOMAIN heatmap |->
                     [ch \in 1..3 |-> blend(colour[ch], heatmap[x][ch], alpha)]]]

\* The per-layer step of generate_gradcam_multilayer for captured
\* activations and gradients.
MakeOverlay ==
  /\ ~cam_overlay.done
  /\ \E out \in {make_overlay(cam_overlay.activations, cam_overlay.gradients,
                               cam_overlay.width, cam_overlay.colour, cam_overlay.alpha)} :
       cam_overlay' = [cam_overlay EXCEPT !.done = TRUE, !.cam = out.cam,
                                          !.resized = out.resized,
                                          !.heatmap = out.heatmap,
                                          !.overlay = out.overlay]
  /\ UNCHANGED <<config, accesses, key_pair, feature_maps, posted, inspect, loader, cache_calls, cache, service, worker, stopper, last>>

InitOverlay ==
  /\ CACHE_ENABLED = FALSE
  /\ CACHE_MAX_ITEMS = DefaultCacheMaxItems
  /\ MODEL_CACHE_MAX = DefaultModelCacheMax
  /\ InitState
  /\ feature_maps = NoFeatureMaps
  /\ \E activations \in CamTensors(CamActivationValues),
        gradients \in CamTensors(CamGradientValues),
        width \in OriginalWidths, colour \in OriginalColours, alpha \in AlphaInputs :
       /\ Len(activations) = Len(gradients)
       /\ Len(activations[1]) = Len(gradients[1])
       /\ key_pair = NoKeyPair
       /\ cam_overlay = [NoOverlay EXCEPT !.activations = activations,
                                          !.gradients = gradients, !.width = width,
                                          !.colour = colour, !.alpha = alpha]

NextOverlay == MakeOverlay

SpecOverlay == InitOverlay /\ [][NextOverlay]_vars

\* cam_max - cam_min of the map before normalisation is not greater than epsilon.
CamIsFlat ==
  LET cam == cam_relu(cam_overlay.activations, cam_overlay.gradients)
  IN np_max(cam) - np_min(cam) <= Epsilon * Len(cam)

\* C31: every value of the normalised saliency map is in [0, 1], all of them
\* are 0 when max - min is not greater than epsilon, and every channel of
\* every overlay pixel is in 0..255.
C31_SaliencyAndOverlayRanges ==
  cam_overlay.done =>
    /\ \A p \in DOMAIN cam_overlay.cam :
         /\ cam_overlay.cam[p].den > 0
         /\ 0 <= cam_overlay.cam[p].num
         /\ cam_overlay.cam[p].num <= cam_overlay.cam[p].den
         /\ CamIsFlat => cam_overlay.cam[p].num = 0
    /\ \A x \in DOMAIN cam_overlay.overlay :
         \A ch \in 1..3 : cam_overlay.overlay[x][ch] \in 0..255

\* A map that is not flat, with a value strictly between 0 and 1, was blended
\* at the default factor over a coloured image.
C31_Witness ==
  /\ cam_overlay.done
  /\ ~CamIsFlat
  /\ cam_overlay.alpha = 45
  /\ cam_overlay.colour = <<200, 100, 0>>
  /\ \E p \in DOMAIN cam_overlay.cam :
       0 < cam_overlay.cam[p].num /\ cam_overlay.cam[p].num < cam_overlay.cam[p].den
  /\ \E x \in DOMAIN cam_overlay.overlay :
       0 < cam_overlay.overlay[x][1] /\ cam_overlay.overlay[x][1] < 255

\* The pixels of the resized saliency map with their heatmap colours.
HeatmapPixels ==
  {[s |-> cam_overlay.resized[x], rgb |-> cam_overlay.heatmap[x]] :
     x \in DOMAIN cam_overlay.resized}

\* s <= t for two fractions with positive denominators.
SaliencyLE(s, t) == s.num * t.den <= t.num * s.den

\* C32: over the pixels of a heatmap, red is non-decreasing in the saliency,
\* blue is non-increasing, and green has its greatest value at saliency 0.5
\* and is lower at saliency 0 and at saliency 1.
C32_ColormapShape ==
  cam_overlay.done =>
    \A a, b \in HeatmapPixels :
      /\ SaliencyLE(a.s, b.s) => a.rgb[1] <= b.rgb[1] /\ a.rgb[3] >= b.rgb[3]
      /\ 2 * a.s.num = a.s.den
           => /\ a.rgb[2] >= b.rgb[2]
              /\ (b.s.num = 0 \/ b.s.num = b.s.den) => a.rgb[2] > b.rgb[2]

\* C33: a call of generate_gradcam_multilayer that returns has made exactly
\* one forward evaluation and exactly one backward pass per selected class,
\* min(top_k, number of classes) in all, whatever the number of requested
\* layers, and has asked to retain the graph on every backward pass but the
\* last.
C33_OnePassPerClass ==
  [][(/\ InspectStep
      /\ inspect_call'.op = "generate_gradcam_multilayer"
      /\ inspect_call'.raised = None)
       => LET call == inspect_call' IN
          /\ call.forwards = 1
          /\ Len(call.backwards) = min(call.top_k, NumClasses)
          /\ \A n \in DOMAIN call.backwards :
               call.backwards[n] = (n < Len(call.backwards))]_vars

\* A call for two layers and more classes than the model has returned after
\* several backward passes.
C33_Witness ==
  /\ inspect_call.op = "generate_gradcam_multilayer"
  /\ inspect_call.raised = None
  /\ Len(inspect_call.layers) = 2
  /\ inspect_call.top_k > NumClasses
  /\ Len(inspect_call.backwards) >= 2

\* ---------------------------------------------------------------------------
\* compute_cache_key on pairs of argument tuples (services/cache.py:27-70).

KeyArguments ==
  [image_bytes : {<<"x">>},
   model_id : {"resnet18", "nomodel"},
   top_k_preds : {1, 11},
   top_k_cam : {1, 2, 12},
   cam_layers : {None, Some(<<"layer4">>), Some(<<"layer4", "layer3">>),
                 Some(<<"layer3", "layer4">>)},
   cam_layer_mode : {"fast", "full"},
   feature_map_limit : {16, 32}]

KeyOf(args) ==
  compute_cache_key(args.image_bytes, args.model_id, args.top_k_preds, args.top_k_cam,
                    args.cam_layers, args.cam_layer_mode, args.feature_map_limit)

ComputeKeys ==
  /\ key_pair.keys = <<>>
  /\ key_pair' = [key_pair EXCEPT !.keys = <<KeyOf(key_pair.args[1]),
                                             KeyOf(key_pair.args[2])>>]
  /\ UNCHANGED <<config, accesses, cam_overlay, feature_maps, posted, inspect, loader, cache_calls, cache, service, worker, stopper, last>>

InitKeys ==
  /\ CACHE_ENABLED = FALSE
  /\ CACHE_MAX_ITEMS = DefaultCacheMaxItems
  /\ MODEL_CACHE_MAX = DefaultModelCacheMax
  /\ InitState
  /\ feature_maps = NoFeatureMaps
  /\ cam_overlay = NoOverlay
  /\ \E first \in KeyArguments, second \in KeyArguments :
       key_pair = [NoKeyPair EXCEPT !.args = <<first, second>>]

NextKeys == ComputeKeys

SpecKeys == InitKeys /\ [][NextKeys]_vars

\* The set of layer names a call is for; no list means the default list.
LayerSet(args) ==
  Range(IF args.cam_layers = None THEN DefaultKeyLayers ELSE args.cam_layers[1])

\* Two argument tuples are the same up to the order of the layer names.
SameArguments(a, b) ==
  /\ [a EXCEPT !.cam_layers = None] = [b EXCEPT !.cam_layers = None]
  /\ LayerSet(a) = LayerSet(b)

\* C34: two argument tuples that differ in any component (the layer names
\* compared as sets) get different keys, the hash being taken as injective.
C34_KeyInjective ==
  key_pair.keys # <<>> =>
    (key_pair.keys[1] = key_pair.keys[2]
       => SameArguments(key_pair.args[1], key_pair.args[2]))

\* C35: every mutation of the job map, the stored-image-bytes map and the
\* stored-parameters map, and every enqueue and dequeue of a job id, is made
\* while the service's lock is held.
C35_AllUnderLock == \A a \in accesses : a.locked

\* The number of times a job id is in the queue.
Queued(queue, job_id) == Len(SelectSeq(queue, LAMBDA item : item = job_id))

\* The step hands the job to process_job: the worker has just dequeued it.
Dequeues(job_id) ==
  /\ frame'.pc = "process_job"
  /\ frame.pc # "process_job"
  /\ frame'.job_id = Some(job_id)

\* C36: a job id is enqueued once, in the step that creates its record, and
\* never again; it is dequeued and handed to process_job only while it is
\* QUEUED and in the queue, which it then leaves; a job that is FAILED is
\* neither enqueued nor handed to process_job.
C36_NoRetries ==
  [][\A job_id \in AllJobIds :
       /\ Queued(job_queue', job_id) > Queued(job_queue, job_id)
            => job_id \notin DOMAIN jobs /\ Queued(job_queue', job_id) = 1
       /\ (job_id \in DOMAIN jobs' \ DOMAIN jobs /\ jobs'[job_id].status = QUEUED)
            => Queued(job_queue', job_id) = 1
       /\ Dequeues(job_id)
            => /\ job_id \in DOMAIN jobs
               /\ jobs[job_id].status = QUEUED
               /\ Queued(job_queue, job_id) = 1
               /\ Queued(job_queue', job_id) = 0
       /\ (job_id \in DOMAIN jobs /\ jobs[job_id].status = FAILED)
            => /\ Queued(job_queue', job_id) = 0
               /\ ~Dequeues(job_id)
               /\ jobs'[job_id].status = FAILED]_vars

\* One job is FAILED and out of the queue, and the worker has gone on to a
\* later job.
C36_Witness ==
  \E failed, later \in DOMAIN jobs :
    /\ jobs[failed].status = FAILED
    /\ Queued(job_queue, failed) = 0
    /\ jobs[later].status \in {RUNNING, SUCCEEDED}
    /\ frame.job_id = Some(later)

\* C37: every job record that get_job can return has status SUCCEEDED if and
\* only if its progress is 100, has a result if and only if its status is
\* SUCCEEDED, and has progress 0 when its status is QUEUED.
C37_ConsistentSnapshots ==
  \A job_id \in DOMAIN jobs :
    LET job == jobs[job_id] IN
    /\ job.status = SUCCEEDED <=> job.progress = 100
    /\ job.result # None <=> job.status = SUCCEEDED
    /\ job.status = QUEUED => job.progress = 0

\* A job is SUCCEEDED with its result while another one is RUNNING part-way.
C37_Witness ==
  \E done, running \in DOMAIN jobs :
    /\ jobs[done].status = SUCCEEDED
    /\ jobs[done].result # None
    /\ jobs[running].status = RUNNING
    /\ jobs[running].progress \in 1..99

\* The progress values process_job writes (service.py:93, 185, 207-315, 394).
ProgressValues == {0, 10, 20, 40, 60, 80, 100}

ProgressInValues == \A job_id \in DOMAIN jobs : jobs[job_id].progress \in ProgressValues

\* C39: every job id waiting in the queue has a record that is QUEUED and has
\* its image bytes and its parameters stored; the two stores have the same
\* keys.
C39_QueueRefersToStoredJobs ==
  /\ \A i \in DOMAIN job_queue :
       job_queue[i] # shutdown_signal =>
         /\ job_queue[i] \in DOMAIN jobs
         /\ jobs[job_queue[i]].status = QUEUED
         /\ job_queue[i] \in DOMAIN job_data
         /\ job_queue[i] \in DOMAIN job_params
  /\ DOMAIN job_data = DOMAIN job_params

\* A job waits in the queue after the stores have been emptied for a finished
\* job.
C39_Witness ==
  /\ \E i \in DOMAIN job_queue : job_queue[i] # shutdown_signal
  /\ \E job_id \in DOMAIN jobs :
       /\ jobs[job_id].status \in {SUCCEEDED, FAILED}
       /\ job_id \notin DOMAIN job_data

\* The step in which the worker loop reads the shutdown sentinel and leaves
\* (service.py:428-432).
ExitsOnSentinel ==
  /\ frame.pc = "get"
  /\ frame'.pc = "done"
  /\ job_queue # <<>>
  /\ Head(job_queue) = shutdown_signal
  /\ job_queue' = Tail(job_queue)

\* C40: a worker loop leaves on the shutdown sentinel only while a stop_worker
\* call is waiting for it; a sentinel left by a stop_worker call that has
\* returned does not end a worker started afterwards.
C40_NoLeftoverSentinel == [][ExitsOnSentinel => stopper = "wait_for"]_vars

====
